---------------------------- MODULE Spec2Model ----------------------------
(***************************************************************************)
(* Model of the pronunciation scoring pipeline of                          *)
(* celery_app/services/analysis_audio/audio_analysis_service.py.           *)
(*                                                                         *)
(* Floats are modelled as tagged values: [k |-> "fin", v |-> n] is the     *)
(* finite number n / One (fixed point, exact rational arithmetic, no       *)
(* binary rounding), and NaN, PosInf, NegInf are the three IEEE specials.  *)
(* Strings are sequences of one-character strings.  The two CJK characters *)
(* of the placeholder text are written "cuo" and "wu".                     *)
(***************************************************************************)
EXTENDS Integers, Sequences, FiniteSets, TLC

(* ------------------------------ floats -------------------------------- *)

\* The float 1.0 in fixed point (upper clip bound of normalize_ratio).
One == 1000

Fin(n) == [k |-> "fin", v |-> n]
NaN == [k |-> "nan", v |-> 0]
PosInf == [k |-> "pinf", v |-> 0]
NegInf == [k |-> "ninf", v |-> 0]

IsFinite(x) == x.k = "fin"
IsNaN(x) == x.k = "nan"

\* Python's  a < b  on floats: every comparison with NaN is False.
FLt(a, b) ==
    CASE IsNaN(a) \/ IsNaN(b) -> FALSE
      [] a.k = "ninf" -> b.k # "ninf"
      [] a.k = "pinf" -> FALSE
      [] b.k = "pinf" -> TRUE
      [] b.k = "ninf" -> FALSE
      [] OTHER -> a.v < b.v

\* Python's  a >= b  and  a <= b  on floats.
FGe(a, b) == ~IsNaN(a) /\ ~IsNaN(b) /\ ~FLt(a, b)
FLe(a, b) == ~IsNaN(a) /\ ~IsNaN(b) /\ ~FLt(b, a)

\* Python's float division n / d for a divisor the caller has tested d > 0.
FDiv(n, d) ==
    CASE IsNaN(n) \/ IsNaN(d) -> NaN
      [] d.k = "pinf" -> IF IsFinite(n) THEN Fin(0) ELSE NaN
      [] n.k = "pinf" -> PosInf
      [] n.k = "ninf" -> NegInf
      [] OTHER -> Fin((n.v * One) \div d.v)

\* np.clip(x, lo, hi): NaN passes through, infinities are clipped.
Clip(x, lo, hi) ==
    CASE IsNaN(x) -> NaN
      [] x.k = "pinf" -> Fin(hi)
      [] x.k = "ninf" -> Fin(lo)
      [] x.v < lo -> Fin(lo)
      [] x.v > hi -> Fin(hi)
      [] OTHER -> x

\* Python's builtin min(a, b): b if b < a else a (so min(NaN, b) is NaN).
PyMin(a, b) == IF FLt(b, a) THEN b ELSE a

\* Python's builtin min over three finite fixed-point numbers.
Min3(x, y, z) == IF x <= y /\ x <= z THEN x ELSE IF y <= z THEN y ELSE z

(* ------------------------------- text --------------------------------- *)

\* The characters the regular expression [^一-龥a-zA-Z0-9] keeps.
CJKChars == {"hao", "cuo", "wu"}
LatinChars == {"a", "b", "c", "d", "A"}
DigitChars == {"1"}
KeptChars == CJKChars \cup LatinChars \cup DigitChars
\* Characters of the model's transcripts that the expression removes.
OtherChars == {"[", ".", " "}

RECURSIVE ReSubKeep(_)
\* re.sub(r'[^一-龥a-zA-Z0-9]', '', text)
ReSubKeep(text) ==
    IF text = <<>> THEN <<>>
    ELSE IF Head(text) \in KeptChars
         THEN <<Head(text)>> \o ReSubKeep(Tail(text))
         ELSE ReSubKeep(Tail(text))

RECURSIVE LStrip(_)
LStrip(s) == IF s # <<>> /\ Head(s) = " " THEN LStrip(Tail(s)) ELSE s

RECURSIVE RStrip(_)
RStrip(s) ==
    IF s # <<>> /\ s[Len(s)] = " " THEN RStrip(SubSeq(s, 1, Len(s) - 1)) ELSE s

\* str.strip()
Strip(s) == RStrip(LStrip(s))

\* str.lower() on the characters of the model.
LowerChar(c) == IF c = "A" THEN "a" ELSE c
Lower(s) == [i \in 1..Len(s) |-> LowerChar(s[i])]

\* normalize_text(text); no function of the module calls it.
normalize_text(text) == Lower(ReSubKeep(text))

\* "[" in text
HasMarker(text) == \E i \in 1..Len(text) : text[i] = "["

RECURSIVE CommonLen(_, _, _, _, _, _)
\* Length of the block a[i..] = b[j..] inside a[..ahi], b[..bhi].
CommonLen(a, b, i, j, ahi, bhi) ==
    IF i > ahi \/ j > bhi THEN 0
    ELSE IF a[i] # b[j] THEN 0
    ELSE 1 + CommonLen(a, b, i + 1, j + 1, ahi, bhi)

\* difflib.SequenceMatcher.find_longest_match: the longest block, of those
\* the one starting earliest in a, of those the one starting earliest in b.
FindLongestMatch(a, b, alo, ahi, blo, bhi) ==
    LET C == {<<i, j, CommonLen(a, b, i, j, ahi, bhi)>> :
                  i \in alo..ahi, j \in blo..bhi}
        Better(x, y) ==
            \/ x[3] > y[3]
            \/ x[3] = y[3] /\ x[1] < y[1]
            \/ x[3] = y[3] /\ x[1] = y[1] /\ x[2] <= y[2]
    IN  IF C = {} THEN <<alo, blo, 0>>
        ELSE CHOOSE x \in C : \A y \in C : Better(x, y)

RECURSIVE MatchingSize(_, _, _, _, _, _)
\* Total size of difflib's get_matching_blocks on a[alo..ahi], b[blo..bhi].
MatchingSize(a, b, alo, ahi, blo, bhi) ==
    IF alo > ahi \/ blo > bhi THEN 0
    ELSE LET m == FindLongestMatch(a, b, alo, ahi, blo, bhi)
         IN  IF m[3] = 0 THEN 0
             ELSE m[3]
                  + MatchingSize(a, b, alo, m[1] - 1, blo, m[2] - 1)
                  + MatchingSize(a, b, m[1] + m[3], ahi, m[2] + m[3], bhi)

\* SequenceMatcher(None, a, b).ratio() = 2.0 * matches / (len(a) + len(b)),
\* and 1.0 when both are empty.
SequenceMatcherRatio(a, b) ==
    IF Len(a) + Len(b) = 0 THEN One
    ELSE (2 * MatchingSize(a, b, 1, Len(a), 1, Len(b)) * One) \div (Len(a) + Len(b))

RECURSIVE CurrentRow(_, _, _, _, _)
\* The inner loop of levenshtein_distance for one character c1 of s1.
CurrentRow(previous_row, c1, s2, j, current_row) ==
    IF j > Len(s2) THEN current_row
    ELSE LET insertions == previous_row[j + 1] + 1
             deletions == current_row[j] + 1
             substitutions == previous_row[j] + (IF c1 # s2[j] THEN 1 ELSE 0)
         IN  CurrentRow(previous_row, c1, s2, j + 1,
                        Append(current_row, Min3(insertions, deletions, substitutions)))

RECURSIVE LevRows(_, _, _, _)
LevRows(previous_row, s1, s2, i) ==
    IF i > Len(s1) THEN previous_row
    ELSE LevRows(CurrentRow(previous_row, s1[i], s2, 1, <<i>>), s1, s2, i + 1)

RECURSIVE levenshtein_distance(_, _)
levenshtein_distance(s1, s2) ==
    IF Len(s1) < Len(s2) THEN levenshtein_distance(s2, s1)
    ELSE IF Len(s2) = 0 THEN Len(s1)
    ELSE LET last == LevRows([j \in 1..(Len(s2) + 1) |-> j - 1], s1, s2, 1)
         IN  last[Len(last)]

\* list(clean): the characters of a string as a list.
ListOfChars(s) == s

\* A variant without the marker test of line 163.
TextSimilarityNoMarker(text_ref, text_sam) ==
    LET clean_ref == ReSubKeep(text_ref)
        clean_sam == ReSubKeep(text_sam)
    IN  IF Len(clean_ref) = 0 /\ Len(clean_sam) = 0 THEN One
        ELSE IF Len(clean_ref) = 0 \/ Len(clean_sam) = 0 THEN 0
        ELSE LET max_len == IF Len(clean_ref) >= Len(clean_sam)
                            THEN Len(clean_ref) ELSE Len(clean_sam)
                 edit_similarity ==
                     One - (levenshtein_distance(clean_ref, clean_sam) * One) \div max_len
             IN  Min3(SequenceMatcherRatio(clean_ref, clean_sam),
                      SequenceMatcherRatio(clean_ref, clean_sam),
                      edit_similarity)

\* A variant that returns the character ratio alone (no min of line 208).
TextSimilarityCharOnly(text_ref, text_sam) ==
    IF HasMarker(text_ref) \/ HasMarker(text_sam) THEN 0
    ELSE LET clean_ref == ReSubKeep(text_ref)
             clean_sam == ReSubKeep(text_sam)
         IN  IF Len(clean_ref) = 0 /\ Len(clean_sam) = 0 THEN One
             ELSE IF Len(clean_ref) = 0 \/ Len(clean_sam) = 0 THEN 0
             ELSE SequenceMatcherRatio(clean_ref, clean_sam)

\* A variant that normalizes with normalize_text (lower-casing included).
TextSimilarityLowerCased(text_ref, text_sam) ==
    IF HasMarker(text_ref) \/ HasMarker(text_sam) THEN 0
    ELSE LET clean_ref == normalize_text(text_ref)
             clean_sam == normalize_text(text_sam)
         IN  IF Len(clean_ref) = 0 /\ Len(clean_sam) = 0 THEN One
             ELSE IF Len(clean_ref) = 0 \/ Len(clean_sam) = 0 THEN 0
             ELSE LET max_len == IF Len(clean_ref) >= Len(clean_sam)
                                 THEN Len(clean_ref) ELSE Len(clean_sam)
                      edit_distance == levenshtein_distance(clean_ref, clean_sam)
                  IN  Min3(SequenceMatcherRatio(clean_ref, clean_sam),
                           SequenceMatcherRatio(clean_ref, clean_sam),
                           One - (edit_distance * One) \div max_len)

\* A variant whose marker test looks at the reference transcript only.
TextSimilarityMarkerRefOnly(text_ref, text_sam) ==
    IF HasMarker(text_ref) THEN 0
    ELSE LET clean_ref == ReSubKeep(text_ref)
             clean_sam == ReSubKeep(text_sam)
         IN  IF Len(clean_ref) = 0 /\ Len(clean_sam) = 0 THEN One
             ELSE IF Len(clean_ref) = 0 \/ Len(clean_sam) = 0 THEN 0
             ELSE LET max_len == IF Len(clean_ref) >= Len(clean_sam)
                                 THEN Len(clean_ref) ELSE Len(clean_sam)
                      edit_distance == levenshtein_distance(clean_ref, clean_sam)
                  IN  Min3(SequenceMatcherRatio(clean_ref, clean_sam),
                           SequenceMatcherRatio(clean_ref, clean_sam),
                           One - (edit_distance * One) \div max_len)

\* A variant whose test for an empty string comes first (lines 170-173
\* with the two conditions swapped): two empty strings score 0.
TextSimilarityEmptyZero(text_ref, text_sam) ==
    IF HasMarker(text_ref) \/ HasMarker(text_sam) THEN 0
    ELSE LET clean_ref == ReSubKeep(text_ref)
             clean_sam == ReSubKeep(text_sam)
         IN  IF Len(clean_ref) = 0 /\ Len(clean_sam) = 0 THEN 0
             ELSE IF Len(clean_ref) = 0 \/ Len(clean_sam) = 0 THEN 0
             ELSE LET max_len == IF Len(clean_ref) >= Len(clean_sam)
                                 THEN Len(clean_ref) ELSE Len(clean_sam)
                      edit_distance == levenshtein_distance(clean_ref, clean_sam)
                  IN  Min3(SequenceMatcherRatio(clean_ref, clean_sam),
                           SequenceMatcherRatio(clean_ref, clean_sam),
                           One - (edit_distance * One) \div max_len)

\* compute_text_similarity_strict(text_ref, text_sam), fixed point.
compute_text_similarity_strict(text_ref, text_sam) ==
    IF HasMarker(text_ref) \/ HasMarker(text_sam) THEN 0
    ELSE LET clean_ref == ReSubKeep(text_ref)
             clean_sam == ReSubKeep(text_sam)
         IN  IF Len(clean_ref) = 0 /\ Len(clean_sam) = 0 THEN One
             ELSE IF Len(clean_ref) = 0 \/ Len(clean_sam) = 0 THEN 0
             ELSE LET char_similarity == SequenceMatcherRatio(clean_ref, clean_sam)
                      word_similarity ==
                          SequenceMatcherRatio(ListOfChars(clean_ref),
                                               ListOfChars(clean_sam))
                      max_len == IF Len(clean_ref) >= Len(clean_sam)
                                 THEN Len(clean_ref) ELSE Len(clean_sam)
                      edit_distance == levenshtein_distance(clean_ref, clean_sam)
                      edit_similarity == One - (edit_distance * One) \div max_len
                  IN  Min3(char_similarity, word_similarity, edit_similarity)

(* -------------------------- clarity metrics --------------------------- *)

\* Outcome of one guarded computation: it raised (RaiseF where the value
\* would be a float, RaiseS where it would be a sequence), it produced val,
\* or it was never started because an earlier statement raised.
RaiseF == [exc |-> TRUE, run |-> TRUE, val |-> Fin(0)]
RaiseS == [exc |-> TRUE, run |-> TRUE, val |-> <<>>]
Ok(v) == [exc |-> FALSE, run |-> TRUE, val |-> v]
NotRunF == [exc |-> FALSE, run |-> FALSE, val |-> Fin(0)]
NotRunS == [exc |-> FALSE, run |-> FALSE, val |-> <<>>]

\* The value parselmouth uses for an unvoiced harmonicity frame (-200).
Sentinel == Fin(-200 * One)

RECURSIVE SumFrames(_)
SumFrames(fs) == IF fs = <<>> THEN 0 ELSE Head(fs).v + SumFrames(Tail(fs))

\* A variant that trusts the mean whatever its value (no test of line 94).
HnrFromFramesUnchecked(values) ==
    LET valid_values == SelectSeq(values, LAMBDA x : x # Sentinel /\ ~IsNaN(x))
    IN  IF Len(valid_values) > 0
        THEN Fin(SumFrames(valid_values) \div Len(valid_values))
        ELSE Fin(5 * One)

\* The HNR step once the harmonicity frames are available: drop the
\* sentinel and NaN frames, average, and keep the mean only in [-50, 50].
HnrFromFrames(values) ==
    LET valid_values == SelectSeq(values, LAMBDA x : x # Sentinel /\ ~IsNaN(x))
    IN  IF Len(valid_values) > 0
        THEN IF \A i \in 1..Len(valid_values) : IsFinite(valid_values[i])
             THEN LET hnr_mean == SumFrames(valid_values) \div Len(valid_values)
                  IN  IF -50 * One <= hnr_mean /\ hnr_mean <= 50 * One
                      THEN Fin(hnr_mean) ELSE Fin(5 * One)
             ELSE Fin(5 * One)
        ELSE Fin(5 * One)

\* The initial result dict of compute_clarity_metrics.
ClarityDefaults ==
    [snr |-> Fin(0), hnr |-> Fin(5 * One), entropy |-> Fin(0),
     conf |-> Fin(0), stoi |-> Fin(0)]

ClarityFields == {"snr", "hnr", "entropy", "conf", "stoi"}

\* A variant with one try block around the five computations: the first
\* computation that raises leaves every later field at its default.
ClaritySharedTry(o) ==
    LET r1 == IF o.snr.exc THEN ClarityDefaults
              ELSE [ClarityDefaults EXCEPT !.snr = o.snr.val]
        a1 == ~o.snr.exc
        r2 == IF ~a1 \/ o.hnr.exc THEN r1
              ELSE [r1 EXCEPT !.hnr = HnrFromFrames(o.hnr.val)]
        a2 == a1 /\ ~o.hnr.exc
        r3 == IF ~a2 \/ o.entropy.exc THEN r2
              ELSE [r2 EXCEPT !.entropy = o.entropy.val]
        a3 == a2 /\ ~o.entropy.exc
        r4 == IF ~a3 \/ o.conf.exc THEN r3 ELSE [r3 EXCEPT !.conf = o.conf.val]
        a4 == a3 /\ ~o.conf.exc
    IN  IF ~a4 \/ o.stoi.exc THEN r4 ELSE [r4 EXCEPT !.stoi = o.stoi.val]

\* compute_clarity_metrics(path).  o gives, for each of the five guarded
\* computations on the clip, whether it raises and the value it computes
\* (for hnr: the harmonicity frames).
compute_clarity_metrics(o) ==
    LET r1 == IF o.snr.exc THEN ClarityDefaults
              ELSE [ClarityDefaults EXCEPT !.snr = o.snr.val]
        r2 == IF o.hnr.exc THEN [r1 EXCEPT !.hnr = Fin(5 * One)]
              ELSE [r1 EXCEPT !.hnr = HnrFromFrames(o.hnr.val)]
        r3 == IF o.entropy.exc THEN r2 ELSE [r2 EXCEPT !.entropy = o.entropy.val]
        r4 == IF o.conf.exc THEN r3 ELSE [r3 EXCEPT !.conf = o.conf.val]
    IN  IF o.stoi.exc THEN r4 ELSE [r4 EXCEPT !.stoi = o.stoi.val]

(* ------------------------- similarity metrics ------------------------- *)

\* whisper_transcribe(path): result["text"].strip()
whisper_transcribe(raw) == Strip(raw)

\* The placeholder transcript of the failure dicts.
ErrorText == <<"cuo", "wu">>

SimilarityFailure ==
    [emb |-> Fin(0), wer |-> Fin(0), txt_ref |-> ErrorText, txt_sam |-> ErrorText]

\* compute_similarity_metrics(path_ref, path_sam).  o.ref and o.sam are the
\* outcomes of the two transcriptions, o.emb that of the embedding block
\* (its value is the cosine similarity of the pooled embeddings).
compute_similarity_metrics(o) ==
    IF o.ref.exc \/ o.sam.exc THEN SimilarityFailure
    ELSE LET txt_ref == whisper_transcribe(o.ref.val)
             txt_sam == whisper_transcribe(o.sam.val)
             wer_sim == compute_text_similarity_strict(txt_ref, txt_sam)
             emb_sim == IF o.emb.exc THEN 0 ELSE o.emb.val.v
             combined == (emb_sim + wer_sim) \div 2
         IN  [emb |-> Fin(combined), wer |-> Fin(wer_sim),
              txt_ref |-> txt_ref, txt_sam |-> txt_sam]

(* ------------------------------ grading ------------------------------- *)

\* normalize_ratio(n, d)
normalize_ratio(n, d) ==
    IF FLt(Fin(0), d) THEN Clip(FDiv(n, d), 0, One) ELSE Fin(0)

\* The weight vector W of composite_index, in hundredths.
W == <<15, 10, 15, 15, 15, 20, 10>>

RECURSIVE DotSum(_, _, _)
DotSum(xs, ws, i) ==
    IF i > Len(xs) THEN 0 ELSE xs[i].v * ws[i] + DotSum(xs, ws, i + 1)

\* np.dot(ratios, W) for positive weights.
Dot(xs, ws) ==
    LET ks == {xs[i].k : i \in 1..Len(xs)}
    IN  IF "nan" \in ks \/ {"pinf", "ninf"} \subseteq ks THEN NaN
        ELSE IF "pinf" \in ks THEN PosInf
        ELSE IF "ninf" \in ks THEN NegInf
        ELSE Fin(DotSum(xs, ws, 1) \div 100)

\* composite_index(ref, sam, sim)
composite_index(ref, sam, sim) ==
    LET ratios == << normalize_ratio(sam.snr, ref.snr),
                     normalize_ratio(sam.hnr, ref.hnr),
                     normalize_ratio(ref.entropy, sam.entropy),
                     normalize_ratio(sam.conf, ref.conf),
                     normalize_ratio(sam.stoi, ref.stoi),
                     sim.emb,
                     sim.wer >>
    IN  Dot(ratios, W)

\* The thresholds of classify_level and of the overrides, fixed point.
Level1Min == 850
Level2Min == 650
Level3Min == 450
Level4Min == 250
LowTextSim == 300
LowTextCap == 400
VeryLowTextSim == 200
VeryLowTextCap == 250
GuardTextSim == 250
GuardIndex == 350

\* A variant comparing with > : a boundary value gets the worse level.
ClassifyLevelStrict(idx) ==
    IF FLt(Fin(Level1Min), idx) THEN 1
    ELSE IF FLt(Fin(Level2Min), idx) THEN 2
    ELSE IF FLt(Fin(Level3Min), idx) THEN 3
    ELSE IF FLt(Fin(Level4Min), idx) THEN 4
    ELSE 5

\* classify_level(idx)
classify_level(idx) ==
    IF FGe(idx, Fin(Level1Min)) THEN 1
    ELSE IF FGe(idx, Fin(Level2Min)) THEN 2
    ELSE IF FGe(idx, Fin(Level3Min)) THEN 3
    ELSE IF FGe(idx, Fin(Level4Min)) THEN 4
    ELSE 5

(* ----------------------------- suggestion ----------------------------- *)

\* The five canned messages of level_msg and the default of level_msg.get.
LevelMsg(level) ==
    CASE level = 1 -> <<"level_msg_1">>
      [] level = 2 -> <<"level_msg_2">>
      [] level = 3 -> <<"level_msg_3">>
      [] level = 4 -> <<"level_msg_4">>
      [] level = 5 -> <<"level_msg_5">>
      [] OTHER -> <<"keep_practising">>

\* The statements of generate_gemini_suggestion's try block that may raise,
\* in program order; "none" is the run in which none raises.
SuggestFailPoints == {"configure", "model", "generate", "response"}

\* Whether the local variable level (bound on line 308) is bound when the
\* statement at the given failure point raises.
LevelBound(failAt) == failAt \in {"generate", "response"}

\* generate_gemini_suggestion(data, api_key).  o.failAt names the statement
\* that raises (or "none"), o.text is response.text.  The result is the
\* returned string, or the exception that leaves the function.
generate_gemini_suggestion(data, o) ==
    IF o.failAt = "none"
    THEN [raised |-> FALSE, exc |-> "none", value |-> Strip(o.text)]
    ELSE IF LevelBound(o.failAt)
         THEN [raised |-> FALSE, exc |-> "none", value |-> LevelMsg(data.level)]
         ELSE [raised |-> TRUE, exc |-> "UnboundLocalError: level", value |-> <<>>]

(* ---------------------------- input domains --------------------------- *)

\* How many of the five sub-metric computations of one clip may depart from
\* the nominal clip in a run of the whole pipeline.
MaxDeviations == 1

\* A well-formed clip: every computation succeeds.
NominalClip ==
    [snr |-> Ok(Fin(20 * One)), hnr |-> Ok(<<Sentinel, Fin(10 * One)>>),
     entropy |-> Ok(Fin(8 * One)), conf |-> Ok(Fin(One)), stoi |-> Ok(Fin(One))]

\* What the SNR expression can evaluate to: log10(0) = -inf on a silent
\* clip, NaN on an empty or overflowing one, else a finite number.
SnrOutcomes ==
    {RaiseF, Ok(NaN), Ok(NegInf), Ok(PosInf), Ok(Fin(20 * One)), Ok(Fin(10 * One))}
HnrOutcomes ==
    {RaiseS, Ok(<<>>), Ok(<<Sentinel, NaN>>), Ok(<<Sentinel, Fin(10 * One)>>),
     Ok(<<Fin(10 * One), NaN, Fin(30 * One)>>), Ok(<<Fin(60 * One)>>)}
EntropyOutcomes == {RaiseF, Ok(Fin(8 * One)), Ok(Fin(4 * One))}
ConfOutcomes == {RaiseF, Ok(Fin(One)), Ok(Fin(One \div 2))}
StoiOutcomes == {RaiseF, Ok(Fin(One)), Ok(NaN)}

\* Every combination of outcomes of the five computations on one clip.
ClarityOutcomes ==
    [snr : SnrOutcomes, hnr : HnrOutcomes, entropy : EntropyOutcomes,
     conf : ConfOutcomes, stoi : StoiOutcomes]

\* The outcomes a pipeline run draws a clip from.
PipelineSnr == {RaiseF, Ok(NaN), Ok(NegInf), Ok(Fin(20 * One))}
PipelineClips ==
    {o \in [snr : PipelineSnr, hnr : {RaiseS, NominalClip.hnr},
            entropy : {RaiseF, NominalClip.entropy},
            conf : {RaiseF, NominalClip.conf, Ok(Fin(One \div 2))},
            stoi : {RaiseF, NominalClip.stoi}] :
        Cardinality({f \in ClarityFields : o[f] # NominalClip[f]}) <= MaxDeviations}

\* Raw transcripts (before strip) a pipeline run draws from.
RawTexts == {<<>>, <<" ", "a">>, <<"a", "b", "c", "d">>, <<"[">>}
EmbOutcomes == {RaiseF, Ok(Fin(One)), Ok(Fin(-One))}

\* Outcomes of compute_similarity_metrics' three guarded steps: a step
\* after one that raised to the outer handler is never started.
SimOutcomes ==
    {[ref |-> RaiseS, sam |-> NotRunS, emb |-> NotRunF]}
    \cup {[ref |-> Ok(t), sam |-> RaiseS, emb |-> NotRunF] : t \in RawTexts}
    \cup {[ref |-> Ok(t), sam |-> Ok(u), emb |-> e] :
              t \in RawTexts, u \in RawTexts, e \in EmbOutcomes}

SuggestOutcomes ==
    {[failAt |-> "none", text |-> <<" ", "advice">>]}
    \cup {[failAt |-> p, text |-> <<>>] : p \in SuggestFailPoints}

(* ------------------------------ pipeline ------------------------------ *)

\* A local that is not bound yet.
Unset == [unset |-> TRUE]
IsSet(x) == "unset" \notin DOMAIN x

VARIABLES
    pc,          \* position inside compute_scores_and_feedback
    exc,         \* the exception travelling to the handler ("none" if none)
    sim_in,      \* outcomes drawn for compute_similarity_metrics
    ref_in,      \* outcomes drawn for compute_clarity_metrics(path_ref)
    sam_in,      \* outcomes drawn for compute_clarity_metrics(path_sam)
    sugg_in,     \* outcome drawn for generate_gemini_suggestion
    similarity, ref_clarity, sam_clarity,   \* locals of the function
    result,      \* the dict being built, then the dict returned
    cm_in,       \* a single compute_clarity_metrics call: its outcomes
    cm_out,      \*   and its return value
    ts_in,       \* a single compute_text_similarity_strict call: its
    ts_out,      \*   two arguments and its return value
    cl_in,       \* classify_level called on two indexes: the indexes
    cl_out,      \*   and the two levels returned
    jpc,         \* per grading job: its position among the model scopes
    scopes,      \* per grading job: the with-scopes entered and not left
    lease,       \* the job holding the shared model (0 when it is free)
    tpc,         \* analyze_audio_task: position inside the task
    targs,       \*   its four string arguments
    tstatus,     \*   the task status recorded in the database
    texc,        \*   the exception in flight, then leaving the task
    analysis_result,  \* its local analysis_result
    stored,      \*   save_analysis_result_sync: "not attempted", "stored", "failed"
    summary,     \*   the value the task returned
    qrecs,       \* AIAnalysisQueue rows, by practice record id
    pstatus,     \* practice_status of each PracticeRecord ("absent": no row)
    qret,        \* the last AIQueueManager call and its HTTP outcome
    qtrail,      \* history: whether a row only ever failed since created
    chat_rooms,    \* ChatRoom rows, by room id
    chat_messages, \* ChatMessage rows, in the order they were created
    mret,          \* the last message service call and what it returned
    pairing_requests, \* PairingRequest rows, in the order they were created
    relationships,    \* TherapistClient rows, in the order they were created
    pret,             \* the last pairing call and its HTTP outcome
    active_connections, \* WebSocketManager: room_id -> set of <<user_id, websocket>>
    user_connections,   \* WebSocketManager: user_id -> set of websockets
    endpoints,          \* the room and user of each running websocket_endpoint
    wret                \* the last WebSocketManager call

\* The variables of the single-call specifications and of the model scopes.
callVars == <<ts_in, ts_out, cl_in, cl_out>>
jobVars == <<jpc, scopes, lease>>

taskVars == <<tpc, targs, tstatus, texc, analysis_result, stored, summary>>
\* The variables of the services around the scoring pipeline.
queueVars == <<qrecs, pstatus, qret, qtrail>>
chatVars == <<chat_rooms, chat_messages, mret>>
pairingVars == <<pairing_requests, relationships, pret>>
wsVars == <<active_connections, user_connections, endpoints, wret>>
svcVars == <<taskVars, queueVars, chatVars, pairingVars, wsVars>>

vars == <<pc, exc, sim_in, ref_in, sam_in, sugg_in, similarity, ref_clarity,
          sam_clarity, result, cm_in, cm_out, callVars, jobVars, svcVars>>

\* The single calls and the model scopes are not running.
CallsIdle == ts_in = Unset /\ ts_out = Unset /\ cl_in = Unset /\ cl_out = Unset
JobsIdle == jpc = Unset /\ scopes = Unset /\ lease = 0
\* No exception: cls is the class of an exception, cause the class of the
\* exception it was made from.
NoExc == [cls |-> "none", cause |-> "none"]
TaskIdle ==
    /\ tpc = "idle" /\ targs = Unset /\ tstatus = "PENDING" /\ texc = NoExc
    /\ analysis_result = Unset /\ stored = "not attempted" /\ summary = Unset
\* No service call is running.
QueueIdle == qrecs = Unset /\ pstatus = Unset /\ qret = Unset /\ qtrail = Unset
ChatIdle == chat_rooms = Unset /\ chat_messages = Unset /\ mret = Unset
PairingIdle == pairing_requests = Unset /\ relationships = Unset /\ pret = Unset
WsIdle ==
    /\ active_connections = Unset /\ user_connections = Unset
    /\ endpoints = Unset /\ wret = Unset
SvcIdle == TaskIdle /\ QueueIdle /\ ChatIdle /\ PairingIdle /\ WsIdle

\* A variant whose handler returns only the error and the grade.
FailureResultPartial(e) ==
    [index |-> Fin(0), level |-> 5, error |-> e]

\* The dict returned by the top-level handler (lines 390-399).
FailureResult(e) ==
    [similarity |-> SimilarityFailure,
     clarity_ref |-> [snr |-> Fin(0), hnr |-> Fin(0), entropy |-> Fin(0),
                      conf |-> Fin(0), stoi |-> Fin(0)],
     clarity_sam |-> [snr |-> Fin(0), hnr |-> Fin(0), entropy |-> Fin(0),
                      conf |-> Fin(0), stoi |-> Fin(0)],
     index |-> Fin(0),
     level |-> 5,
     suggestions |-> <<"analysis_failed">>,
     error |-> e,
     analysis_time |-> Fin(0)]

\* A variant whose handler names one exception class only.
CatchesSettingsOnly(e) == e = "settings unavailable"

\* except Exception: every exception a stage can raise is an Exception.
Catches(e) == TRUE

\* A variant without the second cap (line 361).
ScoreResultSingleCap(sim, ref, sam) ==
    LET index0 == composite_index(ref, sam, sim)
        index1 == IF FLt(sim.wer, Fin(LowTextSim))
                  THEN PyMin(index0, Fin(LowTextCap)) ELSE index0
        level0 == classify_level(index1)
        guard == FLt(sim.wer, Fin(GuardTextSim)) /\ level0 <= 2
    IN  [similarity |-> sim,
         clarity_ref |-> ref,
         clarity_sam |-> sam,
         index |-> IF guard THEN Fin(GuardIndex) ELSE index1,
         level |-> IF guard THEN 4 ELSE level0,
         analysis_time |-> Fin(One)]

\* Lines 352-378: composite index, the two caps, the level, the final
\* guard, and the result dict before the suggestion is added.
ScoreResult(sim, ref, sam) ==
    LET index0 == composite_index(ref, sam, sim)
        index1 == IF FLt(sim.wer, Fin(LowTextSim))
                  THEN PyMin(index0, Fin(LowTextCap)) ELSE index0
        index2 == IF FLt(sim.wer, Fin(VeryLowTextSim))
                  THEN PyMin(index1, Fin(VeryLowTextCap)) ELSE index1
        level0 == classify_level(index2)
        guard == FLt(sim.wer, Fin(GuardTextSim)) /\ level0 <= 2
    IN  [similarity |-> sim,
         clarity_ref |-> ref,
         clarity_sam |-> sam,
         index |-> IF guard THEN Fin(GuardIndex) ELSE index2,
         level |-> IF guard THEN 4 ELSE level0,
         analysis_time |-> Fin(One)]

\* Lines 352-361: the index after the two caps, before the final guard.
CappedIndex(sim, ref, sam) ==
    LET index0 == composite_index(ref, sam, sim)
        index1 == IF FLt(sim.wer, Fin(LowTextSim))
                  THEN PyMin(index0, Fin(LowTextCap)) ELSE index0
    IN  IF FLt(sim.wer, Fin(VeryLowTextSim))
        THEN PyMin(index1, Fin(VeryLowTextCap)) ELSE index1

\* Line 366: the condition of the final guard.
GuardFires(sim, ref, sam) ==
    FLt(sim.wer, Fin(GuardTextSim))
        /\ classify_level(CappedIndex(sim, ref, sam)) <= 2

\* result["suggestions"] = text
WithSuggestions(r, text) ==
    [key \in DOMAIN r \cup {"suggestions"} |->
        IF key = "suggestions" THEN text ELSE r[key]]

Init ==
    /\ pc = "settings"
    /\ exc = "none"
    /\ sim_in = Unset /\ ref_in = Unset /\ sam_in = Unset /\ sugg_in = Unset
    /\ similarity = Unset /\ ref_clarity = Unset /\ sam_clarity = Unset
    /\ result = Unset
    /\ cm_in = Unset /\ cm_out = Unset
    /\ CallsIdle /\ JobsIdle
    /\ SvcIdle

\* Line 342: settings = get_settings()
GetSettings ==
    /\ pc = "settings"
    /\ \E ok \in BOOLEAN :
          IF ok THEN pc' = "similarity" /\ exc' = exc
          ELSE pc' = "except" /\ exc' = "settings unavailable"
    /\ UNCHANGED <<sim_in, ref_in, sam_in, sugg_in, similarity, ref_clarity,
                   sam_clarity, result, cm_in, cm_out, callVars, jobVars, svcVars>>

\* Line 347: similarity = compute_similarity_metrics(path_ref, path_sam)
Similarity ==
    /\ pc = "similarity"
    /\ \E o \in SimOutcomes :
          /\ sim_in' = o
          /\ similarity' = compute_similarity_metrics(o)
    /\ pc' = "clarity_ref"
    /\ UNCHANGED <<exc, ref_in, sam_in, sugg_in, ref_clarity, sam_clarity,
                   result, cm_in, cm_out, callVars, jobVars, svcVars>>

\* Line 348: ref_clarity = compute_clarity_metrics(path_ref)
ClarityRef ==
    /\ pc = "clarity_ref"
    /\ \E o \in PipelineClips :
          /\ ref_in' = o
          /\ ref_clarity' = compute_clarity_metrics(o)
    /\ pc' = "clarity_sam"
    /\ UNCHANGED <<exc, sim_in, sam_in, sugg_in, similarity, sam_clarity,
                   result, cm_in, cm_out, callVars, jobVars, svcVars>>

\* Line 349: sam_clarity = compute_clarity_metrics(path_sam)
ClaritySam ==
    /\ pc = "clarity_sam"
    /\ \E o \in PipelineClips :
          /\ sam_in' = o
          /\ sam_clarity' = compute_clarity_metrics(o)
    /\ pc' = "score"
    /\ UNCHANGED <<exc, sim_in, ref_in, sugg_in, similarity, ref_clarity,
                   result, cm_in, cm_out, callVars, jobVars, svcVars>>

\* Lines 352-378.  A statement of the block may raise (ok = FALSE).
Score ==
    /\ pc = "score"
    /\ \E ok \in BOOLEAN :
          IF ok
          THEN /\ result' = ScoreResult(similarity, ref_clarity, sam_clarity)
               /\ pc' = "suggest" /\ exc' = exc
          ELSE /\ result' = result
               /\ pc' = "except" /\ exc' = "scoring error"
    /\ UNCHANGED <<sim_in, ref_in, sam_in, sugg_in, similarity, ref_clarity,
                   sam_clarity, cm_in, cm_out, callVars, jobVars, svcVars>>

\* Lines 382-386: add the suggestion and return the result.
Suggest ==
    /\ pc = "suggest"
    /\ \E o \in SuggestOutcomes :
          LET r == generate_gemini_suggestion(result, o)
          IN  /\ sugg_in' = o
              /\ IF r.raised
                 THEN result' = result /\ pc' = "except" /\ exc' = r.exc
                 ELSE /\ result' = WithSuggestions(result, r.value)
                      /\ pc' = "returned" /\ exc' = exc
    /\ UNCHANGED <<sim_in, ref_in, sam_in, similarity, ref_clarity, sam_clarity,
                   cm_in, cm_out, callVars, jobVars, svcVars>>

\* Lines 388-399: the top-level handler.
Except ==
    /\ pc = "except"
    /\ IF Catches(exc)
       THEN result' = FailureResult(exc) /\ pc' = "returned"
       ELSE result' = result /\ pc' = "raised"
    /\ UNCHANGED <<exc, sim_in, ref_in, sam_in, sugg_in, similarity, ref_clarity,
                   sam_clarity, cm_in, cm_out, callVars, jobVars, svcVars>>

Next ==
    \/ GetSettings
    \/ Similarity
    \/ ClarityRef
    \/ ClaritySam
    \/ Score
    \/ Suggest
    \/ Except

Spec == Init /\ [][Next]_vars

(* ----------------- one call of compute_clarity_metrics ---------------- *)

InitClarity ==
    /\ pc = "clarity" /\ exc = "none"
    /\ sim_in = Unset /\ ref_in = Unset /\ sam_in = Unset /\ sugg_in = Unset
    /\ similarity = Unset /\ ref_clarity = Unset /\ sam_clarity = Unset
    /\ result = Unset
    /\ cm_in \in ClarityOutcomes
    /\ cm_out = Unset
    /\ CallsIdle /\ JobsIdle
    /\ SvcIdle

ClarityCall ==
    /\ pc = "clarity"
    /\ cm_out' = compute_clarity_metrics(cm_in)
    /\ pc' = "clarity_returned"
    /\ UNCHANGED <<exc, sim_in, ref_in, sam_in, sugg_in, similarity, ref_clarity,
                   sam_clarity, result, cm_in, callVars, jobVars, svcVars>>

SpecClarity == InitClarity /\ [][ClarityCall]_vars

(* -------------- one call of compute_text_similarity_strict ------------ *)

\* The longest transcript the single call is given.
MaxLen == 3

\* The characters of those transcripts: two letters of which one in both
\* cases, a punctuation mark, and the transcription-failure marker.
TextChars == {"a", "A", "b", ".", "["}

\* Every transcript of at most MaxLen characters.
Texts == UNION {[1..n -> TextChars] : n \in 0..MaxLen}

InitText ==
    /\ pc = "text" /\ exc = "none"
    /\ sim_in = Unset /\ ref_in = Unset /\ sam_in = Unset /\ sugg_in = Unset
    /\ similarity = Unset /\ ref_clarity = Unset /\ sam_clarity = Unset
    /\ result = Unset
    /\ cm_in = Unset /\ cm_out = Unset
    /\ ts_in \in [ref : Texts, sam : Texts]
    /\ ts_out = Unset
    /\ cl_in = Unset /\ cl_out = Unset
    /\ JobsIdle
    /\ SvcIdle

TextCall ==
    /\ pc = "text"
    /\ ts_out' = compute_text_similarity_strict(ts_in.ref, ts_in.sam)
    /\ pc' = "text_returned"
    /\ UNCHANGED <<exc, sim_in, ref_in, sam_in, sugg_in, similarity, ref_clarity,
                   sam_clarity, result, cm_in, cm_out, ts_in, cl_in, cl_out,
                   jobVars, svcVars>>

SpecText == InitText /\ [][TextCall]_vars

(* ---------------------- calls of classify_level ----------------------- *)

\* The indexes classify_level is called on: each threshold, its two
\* neighbours in fixed point, values beyond the nominal band, the specials.
Indexes ==
    {Fin(n) : n \in {-100, 0, 249, 250, 251, 449, 450, 451, 649, 650, 651,
                     849, 850, 851, 1000, 1200}}
    \cup {NaN, PosInf, NegInf}

InitClassify ==
    /\ pc = "classify" /\ exc = "none"
    /\ sim_in = Unset /\ ref_in = Unset /\ sam_in = Unset /\ sugg_in = Unset
    /\ similarity = Unset /\ ref_clarity = Unset /\ sam_clarity = Unset
    /\ result = Unset
    /\ cm_in = Unset /\ cm_out = Unset
    /\ ts_in = Unset /\ ts_out = Unset
    /\ cl_in \in Indexes \X Indexes
    /\ cl_out = Unset
    /\ JobsIdle
    /\ SvcIdle

\* classify_level applied to each of the two indexes.
ClassifyCall ==
    /\ pc = "classify"
    /\ cl_out' = <<classify_level(cl_in[1]), classify_level(cl_in[2])>>
    /\ pc' = "classify_returned"
    /\ UNCHANGED <<exc, sim_in, ref_in, sam_in, sugg_in, similarity, ref_clarity,
                   sam_clarity, result, cm_in, cm_out, ts_in, ts_out, cl_in,
                   jobVars, svcVars>>

SpecClassify == InitClassify /\ [][ClassifyCall]_vars

(* ------------- the model scopes of concurrent grading jobs ------------ *)

\* How many grading jobs share the speech model.
NJobs == 2
Jobs == 1..NJobs

\* The places of one job that use the model, in program order: the two
\* whisper_transcribe calls and the embedding block of
\* compute_similarity_metrics, then whisper_confidence inside
\* compute_clarity_metrics of the reference and of the sample clip.
Sites == <<"transcribe_ref", "transcribe_sam", "embedding",
           "confidence_ref", "confidence_sam">>
Done == Len(Sites) + 1

\* A variant of whisper_confidence that transcribes after its with block.
SiteStepsUseAfterExit(site) ==
    CASE site \in {"transcribe_ref", "transcribe_sam"} ->
             <<"enter", "call", "local", "exit">>
      [] site = "embedding" ->
             <<"enter", "local", "call", "call", "local", "exit">>
      [] OTHER ->
             <<"enter", "exit", "call", "local">>

\* The statements of each place in program order.  "enter" is the with
\* statement, "exit" the end of its block, "call" a call on the model
\* (transcribe, encoder), "local" a computation that does not use it.
SiteSteps(site) ==
    CASE site \in {"transcribe_ref", "transcribe_sam"} ->
             <<"enter", "call", "local", "exit">>
      [] site = "embedding" ->
             <<"enter", "local", "call", "call", "local", "exit">>
      [] OTHER ->
             <<"enter", "call", "exit", "local">>

\* Where a job continues when a place raised: a failed transcription
\* leaves compute_similarity_metrics through its handler, every other
\* failure is caught around the place itself.
HandlerNext(i) == IF i <= 3 THEN 4 ELSE i + 1

\* use_model's entry: the model is leased to one job at a time.
CanAcquire(j) == lease = 0
\* use_model's exit: the lease of job j ends.
Released(j) == IF lease = j THEN 0 ELSE lease

\* The statement job j is at ("end" past the last one, "done" after the
\* last place).
StepOf(j) ==
    IF jpc[j].site = Done THEN "done"
    ELSE IF jpc[j].raising THEN "raising"
    ELSE IF jpc[j].ip > Len(SiteSteps(Sites[jpc[j].site])) THEN "end"
    ELSE SiteSteps(Sites[jpc[j].site])[jpc[j].ip]

Advance(j) == jpc' = [jpc EXCEPT ![j].ip = @ + 1]
Raise(j) == jpc' = [jpc EXCEPT ![j].raising = TRUE]

InitJobs ==
    /\ pc = "jobs" /\ exc = "none"
    /\ sim_in = Unset /\ ref_in = Unset /\ sam_in = Unset /\ sugg_in = Unset
    /\ similarity = Unset /\ ref_clarity = Unset /\ sam_clarity = Unset
    /\ result = Unset
    /\ cm_in = Unset /\ cm_out = Unset
    /\ CallsIdle
    /\ jpc = [j \in Jobs |-> [site |-> 1, ip |-> 1, raising |-> FALSE]]
    /\ scopes = [j \in Jobs |-> <<>>]
    /\ lease = 0
    /\ SvcIdle

scoringVars == <<pc, exc, sim_in, ref_in, sam_in, sugg_in, similarity,
                 ref_clarity, sam_clarity, result, cm_in, cm_out, callVars>>
pipelineVars == <<scoringVars, svcVars>>

\* The with statement: use_model(...) either leases the model to the job,
\* waiting while another scope holds it, or raises without a lease.
Enter(j) ==
    /\ StepOf(j) = "enter"
    /\ \/ /\ CanAcquire(j)
          /\ lease' = j
          /\ scopes' = [scopes EXCEPT ![j] = Append(@, Sites[jpc[j].site])]
          /\ Advance(j)
       \/ Raise(j) /\ UNCHANGED <<scopes, lease>>
    /\ UNCHANGED pipelineVars

\* model.transcribe(...) or model.encoder(...): returns or raises.
Call(j) ==
    /\ StepOf(j) = "call"
    /\ Advance(j) \/ Raise(j)
    /\ UNCHANGED <<scopes, lease, pipelineVars>>

\* A computation on the results (strip, mel spectrogram, pooling, mean of
\* the confidences): returns or raises.
Local(j) ==
    /\ StepOf(j) = "local"
    /\ Advance(j) \/ Raise(j)
    /\ UNCHANGED <<scopes, lease, pipelineVars>>

\* The end of a with block: the innermost scope is left.
Exit(j) ==
    /\ StepOf(j) = "exit"
    /\ lease' = Released(j)
    /\ scopes' = [scopes EXCEPT ![j] = SubSeq(@, 1, Len(@) - 1)]
    /\ Advance(j)
    /\ UNCHANGED pipelineVars

\* An exception leaves the place: the with blocks around the raising
\* statement are left on the way to the handler.
Unwind(j) ==
    /\ StepOf(j) = "raising"
    /\ lease' = IF scopes[j] # <<>> THEN Released(j) ELSE lease
    /\ scopes' = [scopes EXCEPT ![j] = <<>>]
    /\ jpc' = [jpc EXCEPT ![j] = [site |-> HandlerNext(jpc[j].site), ip |-> 1,
                                  raising |-> FALSE]]
    /\ UNCHANGED pipelineVars

\* The place returned: the job goes on to the next one.
NextSite(j) ==
    /\ StepOf(j) = "end"
    /\ jpc' = [jpc EXCEPT ![j] = [site |-> jpc[j].site + 1, ip |-> 1,
                                  raising |-> FALSE]]
    /\ UNCHANGED <<scopes, lease, pipelineVars>>

NextJobs ==
    \E j \in Jobs :
        \/ Enter(j)
        \/ Call(j)
        \/ Local(j)
        \/ Exit(j)
        \/ Unwind(j)
        \/ NextSite(j)

SpecJobs == InitJobs /\ [][NextJobs]_vars

(* -------------------------- analyze_audio_task ------------------------ *)

\* The values of each string argument: empty or not.
TaskArgs ==
    [practice_record_id : {"", "p1"}, sentence_id : {"", "s1"},
     user_audio_path : {"", "u.wav"}, example_audio_path : {"", "e.wav"}]

\* What compute_scores_and_feedback hands back: a graded result or the
\* result of its top-level handler.
AnalysisResults ==
    {[level |-> 2, index |-> Fin(700)], [level |-> 4, index |-> NaN],
     [level |-> 5, index |-> Fin(0), error |-> "scoring error"]}

\* The classes the first two handlers of the task name.
PassedThrough ==
    {"AudioAnalysisError", "FileProcessingError", "AudioTaskServiceError",
     "ValueError"}

Exc(c) == [cls |-> c, cause |-> c]
\* raise AudioTaskServiceError(f"...: {e}") inside  except Exception as e
Wrapped(c, e) == [cls |-> c, cause |-> e]

\* safe_update_task_status(task_id, status): the status recorded.
safe_update_task_status(status) == status

\* A variant whose last handler records nothing before it raises.
TaskHandlerSilent(e) ==
    IF e.cls \in PassedThrough
    THEN [status |-> "FAILURE", raises |-> e]
    ELSE [status |-> tstatus, raises |-> Wrapped("AudioAnalysisError", e.cls)]

\* Lines 135-151: the three handlers; what is recorded and what is raised.
TaskHandler(e) ==
    IF e.cls \in PassedThrough
    THEN [status |-> safe_update_task_status("FAILURE"), raises |-> e]
    ELSE [status |-> safe_update_task_status("FAILURE"),
          raises |-> Wrapped("AudioAnalysisError", e.cls)]

\* create_analysis_summary(practice_record_id, sentence_id,
\* analysis_result, processing_time), without the processing time.
create_analysis_summary(pid, sid, res) ==
    [success |-> TRUE, practice_record_id |-> pid, sentence_id |-> sid,
     analysis_level |-> res.level, similarity_score |-> res.index]

\* A variant without the try block of lines 121-130 around the save.
AfterSaveRaises(ok) == IF ok THEN "summary" ELSE "handler"

\* Lines 121-133: where the task goes after save_analysis_result_sync
\* returned (ok) or raised: to the summary in both cases.
AfterSave(ok) == "summary"

InitTask ==
    /\ pc = "task" /\ exc = "none"
    /\ sim_in = Unset /\ ref_in = Unset /\ sam_in = Unset /\ sugg_in = Unset
    /\ similarity = Unset /\ ref_clarity = Unset /\ sam_clarity = Unset
    /\ result = Unset
    /\ cm_in = Unset /\ cm_out = Unset
    /\ CallsIdle /\ JobsIdle /\ QueueIdle /\ ChatIdle /\ PairingIdle /\ WsIdle
    /\ tpc = "validate"
    /\ targs \in TaskArgs
    /\ tstatus = "PENDING"
    /\ texc = NoExc
    /\ analysis_result = Unset
    /\ stored = "not attempted"
    /\ summary = Unset

otherThanTask == <<scoringVars, jobVars, queueVars, chatVars, pairingVars, wsVars>>

\* Lines 102-106: the two argument tests.
Validate ==
    /\ tpc = "validate"
    /\ IF targs.practice_record_id = "" \/ targs.sentence_id = ""
          \/ targs.user_audio_path = "" \/ targs.example_audio_path = ""
       THEN tpc' = "handler" /\ texc' = Exc("ValueError")
       ELSE tpc' = "download" /\ texc' = texc
    /\ UNCHANGED <<targs, tstatus, analysis_result, stored, summary, otherThanTask>>

\* Line 112, download_audio_files: an exception inside its try block
\* leaves it as AudioTaskServiceError, one of its imports (lines 31-32) as
\* itself.
Download ==
    /\ tpc = "download"
    /\ \E o \in {"ok", "ImportError", "OSError"} :
          CASE o = "ok" -> tpc' = "analyze" /\ texc' = texc
            [] o = "ImportError" -> tpc' = "handler" /\ texc' = Exc(o)
            [] OTHER -> /\ tpc' = "handler"
                        /\ texc' = Wrapped("AudioTaskServiceError", o)
    /\ UNCHANGED <<targs, tstatus, analysis_result, stored, summary, otherThanTask>>

\* Line 115, perform_audio_analysis: the result of
\* compute_scores_and_feedback, or AudioTaskServiceError when the
\* temporary-file scope raises.
Analyze ==
    /\ tpc = "analyze"
    /\ \/ \E r \in AnalysisResults :
            analysis_result' = r /\ tpc' = "save" /\ texc' = texc
       \/ /\ analysis_result' = analysis_result
          /\ tpc' = "handler"
          /\ texc' = Wrapped("AudioTaskServiceError", "OSError")
    /\ UNCHANGED <<targs, tstatus, stored, summary, otherThanTask>>

\* Lines 121-130: save_analysis_result_sync stores the result or raises.
Save ==
    /\ tpc = "save"
    /\ \E ok \in BOOLEAN :
          /\ stored' = IF ok THEN "stored" ELSE "failed"
          /\ tpc' = AfterSave(ok)
          /\ texc' = IF AfterSave(ok) = "handler" THEN Exc("DatabaseError") ELSE texc
    /\ UNCHANGED <<targs, tstatus, analysis_result, summary, otherThanTask>>

\* Line 133: the summary is built and returned, or building it raises.
Summary ==
    /\ tpc = "summary"
    /\ \/ /\ summary' = create_analysis_summary(targs.practice_record_id,
                                                targs.sentence_id, analysis_result)
          /\ tpc' = "on_success" /\ texc' = texc
       \/ /\ summary' = summary
          /\ tpc' = "handler" /\ texc' = Exc("TypeError")
    /\ UNCHANGED <<targs, tstatus, analysis_result, stored, otherThanTask>>

\* Lines 135-151: the handler records the status and raises.
Handler ==
    /\ tpc = "handler"
    /\ tstatus' = TaskHandler(texc).status
    /\ texc' = TaskHandler(texc).raises
    /\ tpc' = "on_failure"
    /\ UNCHANGED <<targs, analysis_result, stored, summary, otherThanTask>>

\* AudioAnalysisTask.on_failure, called once the task raised.
OnFailure ==
    /\ tpc = "on_failure"
    /\ tstatus' = safe_update_task_status("FAILURE")
    /\ tpc' = "raised"
    /\ UNCHANGED <<targs, texc, analysis_result, stored, summary, otherThanTask>>

\* AudioAnalysisTask.on_success, called once the task returned.
OnSuccess ==
    /\ tpc = "on_success"
    /\ tstatus' = safe_update_task_status("SUCCESS")
    /\ tpc' = "returned"
    /\ UNCHANGED <<targs, texc, analysis_result, stored, summary, otherThanTask>>

NextTask ==
    \/ Validate
    \/ Download
    \/ Analyze
    \/ Save
    \/ Summary
    \/ Handler
    \/ OnFailure
    \/ OnSuccess

SpecTask == InitTask /\ [][NextTask]_vars

(* ---------------------------- AIQueueManager -------------------------- *)

\* The ids of practice records; a queue row has the id of its practice
\* record (practice_record_id is unique in ai_analysis_queue).
Pids == {"p1", "p2"}

\* Field default of AIAnalysisQueue.max_retries.
MaxRetriesDefault == 3
\* The largest retry_count a re-queue is followed to.
RetryCap == 5

\* No queue row for the practice record.  Timestamps and optional fields
\* are kept as set (TRUE) or None (FALSE).
NoRow ==
    [status |-> "none", priority |-> "normal", retry_count |-> 0,
     max_retries |-> 0, started_at |-> FALSE, completed_at |-> FALSE,
     actual_duration |-> FALSE, error_message |-> FALSE, worker_id |-> FALSE]

\* AIAnalysisQueue(practice_record_id=..., priority=..., status=PENDING,
\* estimated_duration=...) with the field defaults of the table.
NewRow(priority) ==
    [status |-> "pending", priority |-> priority, retry_count |-> 0,
     max_retries |-> MaxRetriesDefault, started_at |-> FALSE,
     completed_at |-> FALSE, actual_duration |-> FALSE,
     error_message |-> FALSE, worker_id |-> FALSE]

\* What a call leaves: its HTTP status and the two tables.
Outcome(code, q, ps) == [code |-> code, qrecs |-> q, pstatus |-> ps]
Unchanged(code) == Outcome(code, qrecs, pstatus)

\* A variant whose re-queue branch also takes rows that are PENDING.
AddToQueueRequeuesPending(p, priority) ==
    IF pstatus[p] = "absent" THEN Unchanged(404)
    ELSE IF qrecs[p].status = "processing" THEN Unchanged(400)
    ELSE IF qrecs[p].status \in {"failed", "cancelled", "pending"}
         THEN Outcome(200,
                      [qrecs EXCEPT ![p].status = "pending",
                                    ![p].priority = priority,
                                    ![p].retry_count = @ + 1,
                                    ![p].error_message = FALSE],
                      pstatus)
    ELSE IF qrecs[p].status = "completed" THEN Unchanged(500)
    ELSE Outcome(200, [qrecs EXCEPT ![p] = NewRow(priority)],
                 [pstatus EXCEPT ![p] = "ai_queued"])

\* AIQueueManager.add_to_queue.  A row that is COMPLETED reaches the
\* creation of a second row for the same practice record, which the
\* unique constraint rejects at commit (500, nothing stored).
add_to_queue(p, priority) ==
    IF pstatus[p] = "absent" THEN Unchanged(404)
    ELSE IF qrecs[p].status \in {"pending", "processing"} THEN Unchanged(400)
    ELSE IF qrecs[p].status \in {"failed", "cancelled"}
         THEN Outcome(200,
                      [qrecs EXCEPT ![p].status = "pending",
                                    ![p].priority = priority,
                                    ![p].retry_count = @ + 1,
                                    ![p].error_message = FALSE],
                      pstatus)
    ELSE IF qrecs[p].status = "completed" THEN Unchanged(500)
    ELSE Outcome(200, [qrecs EXCEPT ![p] = NewRow(priority)],
                 [pstatus EXCEPT ![p] = "ai_queued"])

\* AIQueueManager.start_processing
start_processing(q) ==
    IF qrecs[q].status = "none" THEN Unchanged(404)
    ELSE Outcome(200,
                 [qrecs EXCEPT ![q].status = "processing", ![q].started_at = TRUE],
                 [pstatus EXCEPT ![q] = "ai_processing"])

\* AIQueueManager.mark_completed; timed: processing_time is given and not 0.
mark_completed(q, timed) ==
    IF qrecs[q].status = "none" THEN Unchanged(404)
    ELSE Outcome(200,
                 [qrecs EXCEPT ![q].status = "completed",
                               ![q].completed_at = TRUE,
                               ![q].actual_duration =
                                   IF timed \/ qrecs[q].started_at THEN TRUE ELSE @],
                 [pstatus EXCEPT ![q] = "ai_analyzed"])

\* A variant that retries while retry_count <= max_retries.
MarkFailedRetriesOnceMore(q, should_retry) ==
    IF qrecs[q].status = "none" THEN Unchanged(404)
    ELSE IF should_retry /\ qrecs[q].retry_count <= qrecs[q].max_retries
         THEN Outcome(200,
                      [qrecs EXCEPT ![q].error_message = TRUE,
                                    ![q].status = "pending",
                                    ![q].retry_count = @ + 1,
                                    ![q].worker_id = FALSE,
                                    ![q].started_at = FALSE],
                      [pstatus EXCEPT ![q] = "ai_queued"])
    ELSE Outcome(200,
                 [qrecs EXCEPT ![q].error_message = TRUE,
                               ![q].status = "failed",
                               ![q].completed_at = TRUE],
                 [pstatus EXCEPT ![q] = "completed"])

\* AIQueueManager.mark_failed
mark_failed(q, should_retry) ==
    IF qrecs[q].status = "none" THEN Unchanged(404)
    ELSE IF should_retry /\ qrecs[q].retry_count < qrecs[q].max_retries
         THEN Outcome(200,
                      [qrecs EXCEPT ![q].error_message = TRUE,
                                    ![q].status = "pending",
                                    ![q].retry_count = @ + 1,
                                    ![q].worker_id = FALSE,
                                    ![q].started_at = FALSE],
                      [pstatus EXCEPT ![q] = "ai_queued"])
    ELSE Outcome(200,
                 [qrecs EXCEPT ![q].error_message = TRUE,
                               ![q].status = "failed",
                               ![q].completed_at = TRUE],
                 [pstatus EXCEPT ![q] = "completed"])

\* AIQueueManager.cancel_analysis
cancel_analysis(q) ==
    IF qrecs[q].status = "none" THEN Unchanged(404)
    ELSE IF qrecs[q].status \notin {"pending", "processing"} THEN Unchanged(400)
    ELSE Outcome(200,
                 [qrecs EXCEPT ![q].status = "cancelled", ![q].completed_at = TRUE],
                 [pstatus EXCEPT ![q] = "completed"])

QueueCall(op, id, arg, code) == [op |-> op, id |-> id, arg |-> arg, code |-> code]
NoQueueCall == QueueCall("none", "none", "none", 0)

\* A row stays "fresh" while, since it was created, every call on it was a
\* start_processing or a mark_failed with should_retry.
Trail(id, keeps) == [qtrail EXCEPT ![id] = IF keeps THEN @ ELSE "mixed"]

\* The practice records that exist have no queue row yet, and some id is
\* the id of no practice record.
InitQueue ==
    /\ pc = Unset /\ exc = Unset /\ sim_in = Unset /\ ref_in = Unset
    /\ sam_in = Unset /\ sugg_in = Unset /\ similarity = Unset
    /\ ref_clarity = Unset /\ sam_clarity = Unset /\ result = Unset
    /\ cm_in = Unset /\ cm_out = Unset
    /\ CallsIdle /\ JobsIdle /\ TaskIdle /\ ChatIdle /\ PairingIdle /\ WsIdle
    /\ pstatus \in [Pids -> {"absent", "completed"}]
    /\ \E p \in Pids : pstatus[p] = "absent"
    /\ qrecs = [p \in Pids |-> NoRow]
    /\ qret = NoQueueCall
    /\ qtrail = [p \in Pids |-> "fresh"]

otherThanQueue == <<scoringVars, jobVars, taskVars, chatVars, pairingVars, wsVars>>

\* One call of a queue manager method: the tables become what it leaves.
Apply(out, call, trail) ==
    /\ qrecs' = out.qrecs
    /\ pstatus' = out.pstatus
    /\ qret' = [call EXCEPT !.code = out.code]
    /\ qtrail' = trail
    /\ UNCHANGED otherThanQueue

Priorities == {"normal", "high"}

AddToQueue ==
    \E p \in Pids, priority \in Priorities :
        /\ add_to_queue(p, priority).qrecs[p].retry_count <= RetryCap
        /\ Apply(add_to_queue(p, priority),
                 QueueCall("add_to_queue", p, priority, 0),
                 Trail(p, qrecs[p].status \in {"none", "pending", "processing"}
                          \/ pstatus[p] = "absent"))

StartProcessing ==
    \E q \in Pids :
        Apply(start_processing(q), QueueCall("start_processing", q, "none", 0),
              qtrail)

MarkCompleted ==
    \E q \in Pids, timed \in BOOLEAN :
        Apply(mark_completed(q, timed),
              QueueCall("mark_completed", q, IF timed THEN "timed" ELSE "none", 0),
              Trail(q, qrecs[q].status = "none"))

MarkFailed ==
    \E q \in Pids, should_retry \in BOOLEAN :
        Apply(mark_failed(q, should_retry),
              QueueCall("mark_failed", q, IF should_retry THEN "retry" ELSE "final", 0),
              Trail(q, should_retry \/ qrecs[q].status = "none"))

CancelAnalysis ==
    \E q \in Pids :
        Apply(cancel_analysis(q), QueueCall("cancel_analysis", q, "none", 0),
              Trail(q, cancel_analysis(q).code # 200))

NextQueue ==
    \/ AddToQueue
    \/ StartProcessing
    \/ MarkCompleted
    \/ MarkFailed
    \/ CancelAnalysis

SpecQueue == InitQueue /\ [][NextQueue]_vars

(* ---------------------------- message service ------------------------- *)

\* The largest number of messages created in a run.
MaxMessages == 1
\* The longest message_ids list given to mark_messages_as_read.
MaxIds == 2

Users == {"u1", "u2", "u3"}
\* The rooms of the chat_rooms table; "r0" is the id of no room.
RoomIds == {"r1", "r2"}
RoomArgs == RoomIds \cup {"r0"}

\* ChatRoom rows: u2 is the therapist of both rooms.
NewRoom(client, therapist, active) ==
    [client_id |-> client, therapist_id |-> therapist,
     is_active |-> active, last_message_at |-> FALSE]

\* [room.client_id, room.therapist_id]
Members(room) == {room.client_id, room.therapist_id}

\* ChatMessage(room_id=..., sender_id=..., status=MessageStatus.SENT, ...)
NewMessage(room_id, sender_id) ==
    [room_id |-> room_id, sender_id |-> sender_id, status |-> "sent",
     delivered_at |-> FALSE, read_at |-> FALSE]

\* session.get(ChatMessage, message_id) finds a row.
MessageExists(msgs, message_id) == message_id \in 1..Len(msgs)

\* The message ids a caller may name: those created and one that is not.
MessageArgs == 1..(MaxMessages + 1)

\* create_message: the HTTP status it ends with.
CreateCode(room_id, sender_id) ==
    IF room_id \notin DOMAIN chat_rooms THEN 404
    ELSE IF ~chat_rooms[room_id].is_active THEN 403
    ELSE IF sender_id \notin Members(chat_rooms[room_id]) THEN 403
    ELSE 200

\* The test of one message in the loop of mark_messages_as_read.
MayMarkRead(msgs, message_id, user_id) ==
    /\ MessageExists(msgs, message_id)
    /\ msgs[message_id].room_id \in DOMAIN chat_rooms
    /\ msgs[message_id].sender_id # user_id
    /\ user_id \in Members(chat_rooms[msgs[message_id].room_id])
    /\ msgs[message_id].status # "read"

\* The loop of mark_messages_as_read over message_ids, from the table msgs
\* and marked_count = count.
RECURSIVE MarkReadLoop(_, _, _, _)
MarkReadLoop(message_ids, user_id, msgs, count) ==
    IF message_ids = <<>> THEN [msgs |-> msgs, marked_count |-> count]
    ELSE LET message_id == Head(message_ids)
         IN  IF MayMarkRead(msgs, message_id, user_id)
             THEN MarkReadLoop(Tail(message_ids), user_id,
                               [msgs EXCEPT ![message_id].status = "read",
                                            ![message_id].read_at = TRUE],
                               count + 1)
             ELSE MarkReadLoop(Tail(message_ids), user_id, msgs, count)

mark_messages_as_read(message_ids, user_id) ==
    MarkReadLoop(message_ids, user_id, chat_messages, 0)

\* A variant that does not look at the status before marking DELIVERED.
MarkDeliveredAnyStatus(message_id) ==
    IF ~MessageExists(chat_messages, message_id)
    THEN [msgs |-> chat_messages, ret |-> FALSE]
    ELSE [msgs |-> [chat_messages EXCEPT ![message_id].status = "delivered",
                                         ![message_id].delivered_at = TRUE],
          ret |-> TRUE]

mark_message_as_delivered(message_id) ==
    IF ~MessageExists(chat_messages, message_id)
    THEN [msgs |-> chat_messages, ret |-> FALSE]
    ELSE IF chat_messages[message_id].status = "sent"
    THEN [msgs |-> [chat_messages EXCEPT ![message_id].status = "delivered",
                                         ![message_id].delivered_at = TRUE],
          ret |-> TRUE]
    ELSE [msgs |-> chat_messages, ret |-> FALSE]

\* What mret holds; ret is a count, 1/0 for True/False, or an HTTP status.
MessageCall(op, user, ret) == [op |-> op, user |-> user, ret |-> ret]

InitChat ==
    /\ pc = Unset /\ exc = Unset /\ sim_in = Unset /\ ref_in = Unset
    /\ sam_in = Unset /\ sugg_in = Unset /\ similarity = Unset
    /\ ref_clarity = Unset /\ sam_clarity = Unset /\ result = Unset
    /\ cm_in = Unset /\ cm_out = Unset
    /\ CallsIdle /\ JobsIdle /\ TaskIdle /\ QueueIdle /\ PairingIdle /\ WsIdle
    /\ \E a1 \in BOOLEAN, a2 \in BOOLEAN :
           chat_rooms = [r \in RoomIds |->
                            IF r = "r1" THEN NewRoom("u1", "u2", a1)
                                        ELSE NewRoom("u3", "u2", a2)]
    /\ chat_messages = <<>>
    /\ mret = MessageCall("none", "none", 0)

otherThanChat == <<scoringVars, jobVars, taskVars, queueVars, pairingVars, wsVars>>

CreateMessage ==
    \E room_id \in RoomArgs, sender_id \in Users :
        /\ Len(chat_messages) < MaxMessages
        /\ mret' = MessageCall("create_message", sender_id,
                               CreateCode(room_id, sender_id))
        /\ IF CreateCode(room_id, sender_id) = 200
           THEN /\ chat_messages' = Append(chat_messages,
                                           NewMessage(room_id, sender_id))
                /\ chat_rooms' = [chat_rooms EXCEPT
                                      ![room_id].last_message_at = TRUE]
           ELSE UNCHANGED <<chat_messages, chat_rooms>>
        /\ UNCHANGED otherThanChat

IdLists == UNION {[1..n -> MessageArgs] : n \in 0..MaxIds}

MarkMessagesAsRead ==
    \E message_ids \in IdLists, user_id \in Users :
        LET out == mark_messages_as_read(message_ids, user_id)
        IN  /\ chat_messages' = out.msgs
            /\ mret' = MessageCall("mark_messages_as_read", user_id,
                                   out.marked_count)
            /\ UNCHANGED <<chat_rooms, otherThanChat>>

MarkMessageAsDelivered ==
    \E message_id \in MessageArgs :
        /\ chat_messages' = mark_message_as_delivered(message_id).msgs
        /\ mret' = MessageCall("mark_message_as_delivered", "none",
                       IF mark_message_as_delivered(message_id).ret THEN 1 ELSE 0)
        /\ UNCHANGED <<chat_rooms, otherThanChat>>

NextChat ==
    \/ CreateMessage
    \/ MarkMessagesAsRead
    \/ MarkMessageAsDelivered

SpecChat == InitChat /\ [][NextChat]_vars

(* ---------------------------- pairing service ------------------------- *)

\* The largest number of pairing requests created in a run.
MaxRequests == 2

\* The users table: one user of each UserRole.
PairingUsers == {"t1", "c1", "a1"}
RoleOf(u) ==
    CASE u = "t1" -> "therapist" [] u = "c1" -> "client" [] u = "a1" -> "admin"

\* PairingRequest(requester_id=..., token=..., expires_at=...): target_id
\* None, status PENDING.  expired: expires_at, and the exp of the token made
\* with the same expires_minutes, have passed.
NewRequest(requester_id) ==
    [requester_id |-> requester_id, target_id |-> "none",
     status |-> "pending", expired |-> FALSE]

\* The request ids and tokens a caller may give: those created, and one
\* that belongs to no request.
RequestArgs == 1..(MaxRequests + 1)
RequestExists(request_id) == request_id \in 1..Len(pairing_requests)

_is_valid_pairing(role1, role2) ==
    <<role1, role2>> \in {<<"therapist", "client">>, <<"client", "therapist">>}

_is_already_paired(rels, user1_id, user2_id) ==
    \E i \in 1..Len(rels) :
        /\ \/ (rels[i].therapist_id = user1_id /\ rels[i].client_id = user2_id)
           \/ (rels[i].therapist_id = user2_id /\ rels[i].client_id = user1_id)
        /\ rels[i].is_active

\* The TherapistClient row _create_therapist_client_relationship adds.
NewRelationship(requester_id, target_id) ==
    IF RoleOf(requester_id) = "therapist"
    THEN [therapist_id |-> requester_id, client_id |-> target_id, is_active |-> TRUE]
    ELSE [therapist_id |-> target_id, client_id |-> requester_id, is_active |-> TRUE]

\* A table without the constraint unique_therapist_client.
UniqueViolationNever(rels, rel) == FALSE

\* UniqueConstraint('therapist_id', 'client_id'): the commit of a second row
\* for the same therapist and client raises IntegrityError.
UniqueViolation(rels, rel) ==
    \E i \in 1..Len(rels) :
        rels[i].therapist_id = rel.therapist_id /\ rels[i].client_id = rel.client_id

PairingOutcome(code, reqs, rels) == [code |-> code, reqs |-> reqs, rels |-> rels]
PairingUnchanged(code) == PairingOutcome(code, pairing_requests, relationships)

\* PairingService.scan_pairing_token; the token of request i is i.
scan_pairing_token(token, scanner_id) ==
    IF ~RequestExists(token) THEN PairingUnchanged(400)
    ELSE LET req == pairing_requests[token]
         IN  IF req.expired THEN PairingUnchanged(400)
             ELSE IF req.status # "pending" THEN PairingUnchanged(400)
             ELSE IF req.requester_id = scanner_id THEN PairingUnchanged(400)
             ELSE IF ~_is_valid_pairing(RoleOf(req.requester_id), RoleOf(scanner_id))
                  THEN PairingUnchanged(400)
             ELSE IF _is_already_paired(relationships, req.requester_id, scanner_id)
                  THEN PairingUnchanged(400)
             ELSE PairingOutcome(200,
                      [pairing_requests EXCEPT ![token].target_id = scanner_id],
                      relationships)

\* PairingService.respond_to_pairing_request; an IntegrityError at the
\* commit rolls the session back and leaves as status 500.
respond_to_pairing_request(request_id, user_id, action) ==
    IF ~RequestExists(request_id) THEN PairingUnchanged(404)
    ELSE LET req == pairing_requests[request_id]
             rel == NewRelationship(req.requester_id, req.target_id)
         IN  IF req.requester_id # user_id THEN PairingUnchanged(403)
             ELSE IF req.status # "pending" THEN PairingUnchanged(400)
             ELSE IF req.expired
                  THEN PairingOutcome(400,
                           [pairing_requests EXCEPT ![request_id].status = "expired"],
                           relationships)
             ELSE IF action = "accept"
                  THEN IF req.target_id = "none"
                       THEN PairingOutcome(200,
                                [pairing_requests EXCEPT ![request_id].status = "accepted"],
                                relationships)
                       ELSE IF UniqueViolation(relationships, rel)
                       THEN PairingUnchanged(500)
                       ELSE PairingOutcome(200,
                                [pairing_requests EXCEPT ![request_id].status = "accepted"],
                                Append(relationships, rel))
             ELSE IF action = "reject"
                  THEN PairingOutcome(200,
                           [pairing_requests EXCEPT ![request_id].status = "rejected"],
                           relationships)
             ELSE PairingUnchanged(400)

PairingCall(op, code) == [op |-> op, code |-> code]

InitPairing ==
    /\ pc = Unset /\ exc = Unset /\ sim_in = Unset /\ ref_in = Unset
    /\ sam_in = Unset /\ sugg_in = Unset /\ similarity = Unset
    /\ ref_clarity = Unset /\ sam_clarity = Unset /\ result = Unset
    /\ cm_in = Unset /\ cm_out = Unset
    /\ CallsIdle /\ JobsIdle /\ TaskIdle /\ QueueIdle /\ ChatIdle /\ WsIdle
    /\ pairing_requests = <<>>
    /\ relationships = <<>>
    /\ pret = PairingCall("none", 0)

otherThanPairing == <<scoringVars, jobVars, taskVars, queueVars, chatVars, wsVars>>

CreatePairingRequest(requester_id) ==
    /\ Len(pairing_requests) < MaxRequests
    /\ pairing_requests' = Append(pairing_requests, NewRequest(requester_id))
    /\ pret' = PairingCall("create_pairing_request", 200)
    /\ UNCHANGED <<relationships, otherThanPairing>>

ScanPairingToken(token, scanner_id) ==
    LET out == scan_pairing_token(token, scanner_id)
    IN  /\ pairing_requests' = out.reqs
        /\ relationships' = out.rels
        /\ pret' = PairingCall("scan_pairing_token", out.code)
        /\ UNCHANGED otherThanPairing

RespondToPairingRequest(request_id, user_id, action) ==
    LET out == respond_to_pairing_request(request_id, user_id, action)
    IN  /\ pairing_requests' = out.reqs
        /\ relationships' = out.rels
        /\ pret' = PairingCall("respond_to_pairing_request", out.code)
        /\ UNCHANGED otherThanPairing

\* remove_relationship of the pairing router: one of the two users of an
\* active relationship marks it inactive.
RemoveRelationship(i, user_id) ==
    /\ i \in 1..Len(relationships)
    /\ relationships[i].is_active
    /\ user_id \in {relationships[i].therapist_id, relationships[i].client_id}
    /\ relationships' = [relationships EXCEPT ![i].is_active = FALSE]
    /\ pret' = PairingCall("remove_relationship", 200)
    /\ UNCHANGED <<pairing_requests, otherThanPairing>>

\* Time passes the expires_at of a request; expires_at is read only while
\* the request is PENDING.
Expire(request_id) ==
    /\ RequestExists(request_id)
    /\ pairing_requests[request_id].status = "pending"
    /\ ~pairing_requests[request_id].expired
    /\ pairing_requests' = [pairing_requests EXCEPT ![request_id].expired = TRUE]
    /\ pret' = PairingCall("none", 0)
    /\ UNCHANGED <<relationships, otherThanPairing>>

RespondActions == {"accept", "reject", "other"}

NextPairing ==
    \/ \E u \in PairingUsers : CreatePairingRequest(u)
    \/ \E t \in RequestArgs, u \in PairingUsers : ScanPairingToken(t, u)
    \/ \E r \in RequestArgs, u \in PairingUsers, a \in RespondActions :
           RespondToPairingRequest(r, u, a)
    \/ \E i \in 1..MaxRequests, u \in PairingUsers : RemoveRelationship(i, u)
    \/ \E r \in RequestArgs : Expire(r)

SpecPairing == InitPairing /\ [][NextPairing]_vars

(* --------------------------- WebSocketManager -------------------------- *)

WsIds == {"w1", "w2"}
WsUsers == {"u1", "u2"}
WsRooms == {"r1", "r2"}

\* A dict of sets: a function on the keys it holds.
EmptyDict == [k \in {} |-> {}]

\* if k not in d: d[k] = set();  d[k].add(v)
DictAdd(d, k, v) ==
    [x \in DOMAIN d \cup {k} |->
        IF x = k THEN (IF k \in DOMAIN d THEN d[k] ELSE {}) \cup {v} ELSE d[x]]

\* if k in d: d[k].discard(v); if not d[k]: del d[k]
DictDiscardAndDelete(d, k, v) ==
    IF k \notin DOMAIN d THEN d
    ELSE IF d[k] \ {v} = {} THEN [x \in DOMAIN d \ {k} |-> d[x]]
    ELSE [d EXCEPT ![k] = @ \ {v}]

\* The websocket_endpoint of ws is not running.
NoEndpoint == [room_id |-> "none", user_id |-> "none"]

\* What the dicts are after send_personal_message when send_text raises for
\* the websockets in failing.
send_personal_message(user_id, failing) ==
    IF user_id \notin DOMAIN user_connections
    THEN [active |-> active_connections, user |-> user_connections]
    ELSE [active |-> active_connections,
          user |-> [user_connections EXCEPT ![user_id] = @ \ failing]]

\* The clean-up loop of broadcast_to_room and send_to_room_members over the
\* pairs in disconnected.
RoomCleanup(room_id, disconnected) ==
    [active |-> [active_connections EXCEPT ![room_id] = @ \ disconnected],
     user |-> [u \in DOMAIN user_connections |->
                  user_connections[u]
                      \ {p[2] : p \in {q \in disconnected : q[1] = u}}]]

\* exclude_user_id "none": the argument is None.
broadcast_to_room(room_id, exclude_user_id, failing) ==
    IF room_id \notin DOMAIN active_connections
    THEN [active |-> active_connections, user |-> user_connections]
    ELSE RoomCleanup(room_id,
             {p \in active_connections[room_id] :
                 /\ ~(exclude_user_id # "none" /\ p[1] = exclude_user_id)
                 /\ p[2] \in failing})

send_to_room_members(room_id, target_user_ids, failing) ==
    IF room_id \notin DOMAIN active_connections
    THEN [active |-> active_connections, user |-> user_connections]
    ELSE RoomCleanup(room_id,
             {p \in active_connections[room_id] :
                 p[1] \in target_user_ids /\ p[2] \in failing})

is_user_online(user_id) ==
    user_id \in DOMAIN user_connections
    /\ Cardinality(user_connections[user_id]) > 0

get_room_online_users(room_id) ==
    IF room_id \notin DOMAIN active_connections THEN {}
    ELSE {p[1] : p \in active_connections[room_id]}

InitWs ==
    /\ pc = Unset /\ exc = Unset /\ sim_in = Unset /\ ref_in = Unset
    /\ sam_in = Unset /\ sugg_in = Unset /\ similarity = Unset
    /\ ref_clarity = Unset /\ sam_clarity = Unset /\ result = Unset
    /\ cm_in = Unset /\ cm_out = Unset
    /\ CallsIdle /\ JobsIdle /\ TaskIdle /\ QueueIdle /\ ChatIdle /\ PairingIdle
    /\ active_connections = EmptyDict
    /\ user_connections = EmptyDict
    /\ endpoints = [ws \in WsIds |-> NoEndpoint]
    /\ wret = [op |-> "none"]

otherThanWs == <<scoringVars, jobVars, taskVars, queueVars, chatVars, pairingVars>>

\* websocket_endpoint accepts a new websocket and calls connect.
Connect(websocket, room_id, user_id) ==
    /\ endpoints[websocket] = NoEndpoint
    /\ active_connections' =
           DictAdd(active_connections, room_id, <<user_id, websocket>>)
    /\ user_connections' = DictAdd(user_connections, user_id, websocket)
    /\ endpoints' = [endpoints EXCEPT
                        ![websocket] = [room_id |-> room_id, user_id |-> user_id]]
    /\ wret' = [op |-> "connect"]
    /\ UNCHANGED otherThanWs

\* The finally of websocket_endpoint calls disconnect with the arguments
\* it gave to connect.
Disconnect(websocket) ==
    /\ endpoints[websocket] # NoEndpoint
    /\ active_connections' =
           DictDiscardAndDelete(active_connections, endpoints[websocket].room_id,
                                <<endpoints[websocket].user_id, websocket>>)
    /\ user_connections' =
           DictDiscardAndDelete(user_connections, endpoints[websocket].user_id,
                                websocket)
    /\ endpoints' = [endpoints EXCEPT ![websocket] = NoEndpoint]
    /\ wret' = [op |-> "disconnect"]
    /\ UNCHANGED otherThanWs

\* A send: the dicts become what the method leaves.
Sent(out, op) ==
    /\ active_connections' = out.active
    /\ user_connections' = out.user
    /\ wret' = [op |-> op]
    /\ UNCHANGED <<endpoints, otherThanWs>>

SendPersonalMessage(user_id, failing) ==
    Sent(send_personal_message(user_id, failing), "send_personal_message")

BroadcastToRoom(room_id, exclude_user_id, failing) ==
    Sent(broadcast_to_room(room_id, exclude_user_id, failing), "broadcast_to_room")

SendToRoomMembers(room_id, target_user_ids, failing) ==
    Sent(send_to_room_members(room_id, target_user_ids, failing),
         "send_to_room_members")

NextWs ==
    \/ \E ws \in WsIds, r \in WsRooms, u \in WsUsers : Connect(ws, r, u)
    \/ \E ws \in WsIds : Disconnect(ws)
    \/ \E u \in WsUsers, failing \in SUBSET WsIds : SendPersonalMessage(u, failing)
    \/ \E r \in WsRooms, x \in WsUsers \cup {"none"}, failing \in SUBSET WsIds :
           BroadcastToRoom(r, x, failing)
    \/ \E r \in WsRooms, t \in SUBSET WsUsers, failing \in SUBSET WsIds :
           SendToRoomMembers(r, t, failing)

SpecWs == InitWs /\ [][NextWs]_vars

(* ------------------------------- claims ------------------------------- *)

Returned == pc = "returned"
\* The call returned from the end of the try block, not from the handler.
Completed == Returned /\ exc = "none"
ResultFields ==
    {"similarity", "clarity_ref", "clarity_sam", "index", "level",
     "suggestions", "analysis_time", "error"}

\* C1: compute_scores_and_feedback never raises to its caller: from every
\* position inside the call a step is possible until it has returned, no
\* combination of stage failures reaches the caller as an exception, and
\* what is returned is a result dict.
C1_NeverRaises ==
    /\ pc # "raised"
    /\ (Returned => IsSet(result) /\ "level" \in DOMAIN result)
    /\ (~Returned => ENABLED Next)

\* A run in which a transcription, sub-metrics of both clips and the
\* suggestion call all failed, and the call returned.
C1_Witness ==
    /\ Completed
    /\ sim_in.sam.exc
    /\ ref_in.snr.exc
    /\ sam_in.conf.exc
    /\ sugg_in.failAt = "generate"

\* C2: a result returned by the top-level handler has all eight fields,
\* level 5, index 0, the apology text, and the exception's message in error.
C2_FailureResultPopulated ==
    Returned /\ exc # "none" =>
        /\ DOMAIN result = ResultFields
        /\ result.level = 5
        /\ result.index = Fin(0)
        /\ result.suggestions = <<"analysis_failed">>
        /\ result.error = exc
        /\ result.analysis_time = Fin(0)
        /\ DOMAIN result.similarity = {"emb", "wer", "txt_ref", "txt_sam"}
        /\ DOMAIN result.clarity_ref = ClarityFields
        /\ DOMAIN result.clarity_sam = ClarityFields

\* The scoring block raised after all three metric stages had run.
C2_Witness ==
    /\ Returned
    /\ exc = "scoring error"
    /\ IsSet(sam_clarity)
    /\ result.error = "scoring error"

\* C3: whenever the suggestion call fails, at whichever statement, the
\* returned suggestions are the canned message of the computed level, index
\* and level are the computed ones, and no error is reported.
C3_SuggestionFailureContained ==
    Returned /\ IsSet(sugg_in) /\ sugg_in.failAt # "none" =>
        LET computed == ScoreResult(similarity, ref_clarity, sam_clarity)
        IN  /\ result.level = computed.level
            /\ result.index = computed.index
            /\ result.suggestions = LevelMsg(computed.level)
            /\ "error" \notin DOMAIN result

\* C4: every returned result has a level in 1..5 and a finite index.
C4_LevelValidIndexFinite ==
    Returned => result.level \in 1..5 /\ IsFinite(result.index)

\* C5: text similarity below 0.20 gives level 4 or 5 and index <= 0.25.
C5_VeryLowTextCaps ==
    Returned /\ FLt(result.similarity.wer, Fin(200)) =>
        result.level \in {4, 5} /\ FLe(result.index, Fin(250))

\* C6 as stated: text similarity below 0.2 gives level exactly 5 whatever
\* the acoustic scores (its bound on the index is the statement of C5).
C6_GibberishLevelFive ==
    Returned /\ FLt(result.similarity.wer, Fin(200)) => result.level = 5

\* C6 amended: text similarity below 0.2 gives level 4 or 5, level 4
\* exactly when the index is 0.25, and an index that is never above 0.25.
C6_GibberishLevelFourOrFive ==
    Returned /\ FLt(result.similarity.wer, Fin(200)) =>
        /\ result.level \in {4, 5}
        /\ (result.level = 4 <=> result.index = Fin(250))
        /\ ~FLt(Fin(250), result.index)

\* Gibberish transcript against two well-formed clips: the cap yields 4.
C6_Witness ==
    /\ Completed
    /\ result.similarity.wer = Fin(0)
    /\ ref_in = NominalClip /\ sam_in = NominalClip
    /\ result.level = 4

\* C7: text similarity in [0.20, 0.30) gives index <= 0.40 and level 4 or 5.
C7_LowTextCap ==
    Returned /\ FGe(result.similarity.wer, Fin(200))
             /\ FLt(result.similarity.wer, Fin(300)) =>
        FLe(result.index, Fin(400)) /\ result.level \in {4, 5}

\* C8: every returned result has the same eight fields; error is null when
\* the call completed and a message only when the handler produced it.
C8_ErrorFieldAlwaysPresent ==
    Returned =>
        /\ DOMAIN result = ResultFields
        /\ (IsSet(sugg_in) => result.error = "null")
        /\ (result.error # "null" => exc # "none" /\ ~IsSet(sugg_in))

\* Transcription of a clip failed: the transcriber raised, or the text has
\* the marker, or the text is empty.
TranscriptFailed(o) ==
    o.run /\ (o.exc \/ HasMarker(whisper_transcribe(o.val))
                    \/ whisper_transcribe(o.val) = <<>>)

BothTranscribed ==
    /\ ~sim_in.ref.exc /\ sim_in.sam.run /\ ~sim_in.sam.exc
    /\ ~HasMarker(sim_in.ref.val) /\ ~HasMarker(sim_in.sam.val)
CleanRef == ReSubKeep(whisper_transcribe(sim_in.ref.val))
CleanSam == ReSubKeep(whisper_transcribe(sim_in.sam.val))

Computed(o, f) == IF f = "hnr" THEN HnrFromFrames(o.hnr.val) ELSE o[f].val

\* C10: compute_clarity_metrics returns, the fields whose computation
\* raised hold their defaults and every other field its computed value.
C10_SubMetricsIsolated ==
    pc = "clarity_returned" =>
        /\ DOMAIN cm_out = ClarityFields
        /\ \A f \in ClarityFields :
              IF cm_in[f].exc
              THEN cm_out[f] = (IF f = "hnr" THEN Fin(5 * One) ELSE Fin(0))
              ELSE cm_out[f] = Computed(cm_in, f)

\* HNR and confidence raised; the other three fields were still computed.
C10_Witness ==
    /\ pc = "clarity_returned"
    /\ cm_in.hnr.exc /\ cm_in.conf.exc
    /\ ~cm_in.snr.exc /\ ~cm_in.entropy.exc /\ ~cm_in.stoi.exc
    /\ cm_out.snr = Fin(10 * One)
    /\ cm_out.entropy = Fin(4 * One)
    /\ cm_out.stoi = Fin(One)
    /\ cm_out.hnr = Fin(5 * One)
    /\ cm_out.conf = Fin(0)

\* Whether field f of the clarity dict of clip c ("ref" or "sam") in the
\* returned result was successfully computed: the call completed and the
\* computation of f on that clip did not raise.
FieldComputed(c, f) ==
    Completed /\ (IF c = "ref" THEN ~ref_in[f].exc ELSE ~sam_in[f].exc)

\* C11: in every returned result, the total-failure result included, each
\* field of clarity_ref and clarity_sam that was not successfully computed
\* holds its documented default: 0 for snr, entropy, conf and stoi, 5.0
\* for hnr.
C11_ClarityFieldDefaults ==
    Returned =>
        \A c \in {"ref", "sam"} : \A f \in ClarityFields :
            LET m == IF c = "ref" THEN result.clarity_ref ELSE result.clarity_sam
            IN  ~FieldComputed(c, f) =>
                    m[f] = (IF f = "hnr" THEN Fin(5 * One) ELSE Fin(0))

\* The positions of the frames that are neither the sentinel nor NaN.
ValidFrameIdx(fs) == {i \in 1..Len(fs) : fs[i] # Fin(-200 * One) /\ fs[i].k # "nan"}

RECURSIVE SumAt(_, _)
SumAt(fs, I) ==
    IF I = {} THEN 0
    ELSE LET i == CHOOSE i \in I : TRUE IN fs[i].v + SumAt(fs, I \ {i})

\* C12: the hnr returned by compute_clarity_metrics is the mean of the
\* harmonicity frames that are neither -200 nor NaN when there is such a
\* frame and the mean lies in [-50, 50]; when there is none, or the mean is
\* out of range, or the analysis raised, it is exactly 5.0; and the call
\* always returns a dict with the five fields.
C12_HnrMeanOrDefault ==
    /\ pc = "clarity" => ENABLED ClarityCall
    /\ pc = "clarity_returned" =>
          LET fs == cm_in.hnr.val
              I == ValidFrameIdx(fs)
              mean == SumAt(fs, I) \div Cardinality(I)
          IN  /\ DOMAIN cm_out = ClarityFields
              /\ IF ~cm_in.hnr.exc /\ I # {}
                 THEN IF -50 * One <= mean /\ mean <= 50 * One
                      THEN cm_out.hnr = Fin(mean)
                      ELSE cm_out.hnr = Fin(5 * One)
                 ELSE cm_out.hnr = Fin(5 * One)

\* Three frames of which one is NaN: the mean of the other two is returned.
C12_Witness ==
    /\ pc = "clarity_returned"
    /\ cm_in.hnr = Ok(<<Fin(10 * One), NaN, Fin(30 * One)>>)
    /\ cm_out.hnr = Fin(20 * One)

\* The cosine similarity the embedding block computed for the two clips;
\* 0.0 when the block raised or was never reached.
EmbeddingCosine ==
    IF sim_in.emb.run /\ ~sim_in.emb.exc THEN sim_in.emb.val ELSE Fin(0)

\* The ratio of C13 on finite numbers: 0 for a denominator <= 0, else the
\* quotient clipped to [0, 1].
ClaimedRatio(n, d) ==
    IF d.v <= 0 THEN 0
    ELSE LET q == (n.v * One) \div d.v
         IN  IF q < 0 THEN 0 ELSE IF q > One THEN One ELSE q

AllFinite(m) == \A f \in ClarityFields : IsFinite(m[f])

\* C13: for finite sub-metrics the composite index is 0.15*snr_ratio +
\* 0.10*hnr_ratio + 0.15*entropy_ratio + 0.15*conf_ratio + 0.15*stoi_ratio +
\* 0.20*(embedding cosine similarity) + 0.10*(text similarity), entropy_ratio
\* being ref/sample and the other ratios sample/ref.
C13_CompositeIndexFormula ==
    pc = "score" /\ AllFinite(ref_clarity) /\ AllFinite(sam_clarity) =>
        composite_index(ref_clarity, sam_clarity, similarity) =
            Fin(( 15 * ClaimedRatio(sam_clarity.snr, ref_clarity.snr)
                + 10 * ClaimedRatio(sam_clarity.hnr, ref_clarity.hnr)
                + 15 * ClaimedRatio(ref_clarity.entropy, sam_clarity.entropy)
                + 15 * ClaimedRatio(sam_clarity.conf, ref_clarity.conf)
                + 15 * ClaimedRatio(sam_clarity.stoi, ref_clarity.stoi)
                + 20 * EmbeddingCosine.v
                + 10 * similarity.wer.v ) \div 100)

\* C14: the emb field of the similarity object of a completed call is the
\* cosine similarity of the two pooled embeddings, 0.0 if the embedding
\* block failed, whatever the transcripts and the text similarity are.
C14_EmbIsCosine ==
    Completed => result.similarity.emb = EmbeddingCosine

TextReturned == pc = "text_returned"
\* Neither raw transcript of the call contains the marker.
NoMarker(t) == \A i \in 1..Len(t) : t[i] # "["
MarkerFree == NoMarker(ts_in.ref) /\ NoMarker(ts_in.sam)
\* The normalized form: the CJK ideographs, Latin letters and digits.
Normalized(t) == SelectSeq(t, LAMBDA c : c \in KeptChars)

RECURSIVE EditDistance(_, _)
\* The Levenshtein distance by its defining recurrence.
EditDistance(a, b) ==
    IF a = <<>> THEN Len(b)
    ELSE IF b = <<>> THEN Len(a)
    ELSE Min3(EditDistance(Tail(a), b) + 1,
              EditDistance(a, Tail(b)) + 1,
              EditDistance(Tail(a), Tail(b)) + (IF Head(a) = Head(b) THEN 0 ELSE 1))

\* C15: for two transcripts without the marker whose normalized forms a, b
\* are both non-empty, the call returns the minimum of the character
\* sequence ratio, the same ratio over the lists of characters, and
\* 1 - levenshtein(a, b) / max(len(a), len(b)); the value lies in [0, 1]
\* and is 1.0 when a = b.
C15_MinOfThreeMeasures ==
    TextReturned /\ MarkerFree =>
        LET a == Normalized(ts_in.ref)
            b == Normalized(ts_in.sam)
            longest == IF Len(a) >= Len(b) THEN Len(a) ELSE Len(b)
        IN  a # <<>> /\ b # <<>> =>
                /\ ts_out = Min3(SequenceMatcherRatio(a, b),
                                 SequenceMatcherRatio(ListOfChars(a), ListOfChars(b)),
                                 One - (EditDistance(a, b) * One) \div longest)
                /\ 0 <= ts_out /\ ts_out <= One
                /\ (a = b => ts_out = One)

\* "ab." against "ba": the ratio is 0.5, the edit similarity 0, the result 0.
C15_Witness ==
    /\ TextReturned
    /\ ts_in = [ref |-> <<"a", "b", ".">>, sam |-> <<"b", "a">>]
    /\ SequenceMatcherRatio(<<"a", "b">>, <<"b", "a">>) = One \div 2
    /\ ts_out = 0

\* C16 as stated: the strings compared are stripped of everything but CJK
\* ideographs, Latin letters and digits and then lower-cased, so two
\* marker-free transcripts that agree after that normalization (they differ
\* only in letter case, punctuation or whitespace) score 1.0.
C16_CaseAndPunctuationIgnored ==
    TextReturned /\ MarkerFree =>
        (Lower(Normalized(ts_in.ref)) = Lower(Normalized(ts_in.sam)) =>
            ts_out = One)

\* C16 amended: the strings compared are stripped of everything but CJK
\* ideographs, Latin letters and digits and are not lower-cased: two
\* marker-free transcripts score 1.0 exactly when their stripped forms are
\* equal, so a difference in punctuation or whitespace is ignored and a
\* difference in letter case lowers the score.
C16_PunctuationIgnoredCaseKept ==
    TextReturned /\ MarkerFree =>
        (ts_out = One <=> Normalized(ts_in.ref) = Normalized(ts_in.sam))

\* "Ab" against "a.b": equal but for case and punctuation, scored 0.5.
C16_Witness ==
    /\ TextReturned
    /\ ts_in = [ref |-> <<"A", "b">>, sam |-> <<"a", ".", "b">>]
    /\ ts_out = One \div 2

\* C17: if either raw transcript contains "[", the call returns exactly
\* 0.0, identical transcripts and transcripts that normalize to the empty
\* string included.
C17_MarkerGivesZero ==
    TextReturned /\ ~MarkerFree => ts_out = 0

\* Two identical transcripts that carry the marker.
C17_Witness ==
    /\ TextReturned
    /\ ts_in = [ref |-> <<"a", "[">>, sam |-> <<"a", "[">>]
    /\ ts_out = 0

\* C18: for transcripts without the marker, two empty normalized strings
\* give 1.0 and exactly one empty normalized string gives 0.0, whichever
\* argument it is.
C18_EmptyNormalized ==
    TextReturned /\ MarkerFree =>
        LET a == Normalized(ts_in.ref)
            b == Normalized(ts_in.sam)
        IN  /\ (a = <<>> /\ b = <<>> => ts_out = One)
            /\ (a = <<>> /\ b # <<>> => ts_out = 0)
            /\ (a # <<>> /\ b = <<>> => ts_out = 0)

\* Punctuation only against the empty transcript: a trivial match.
C18_Witness ==
    /\ TextReturned
    /\ ts_in = [ref |-> <<".", ".">>, sam |-> <<>>]
    /\ ts_out = One

\* The level C19 gives an index: the first threshold it reaches, 5 if none
\* (an infinite index is above or below every threshold, NaN reaches none).
ClaimedLevel(x) ==
    CASE x.k = "pinf" -> 1
      [] x.k \in {"ninf", "nan"} -> 5
      [] x.v >= 850 -> 1
      [] x.v >= 650 -> 2
      [] x.v >= 450 -> 3
      [] x.v >= 250 -> 4
      [] OTHER -> 5

\* C19: classify_level returns a level for every index: 1 from 0.85, 2
\* from 0.65, 3 from 0.45, 4 from 0.25, else 5, a boundary value getting the
\* better level; and an index at least as large never gets a worse level.
C19_ThresholdsAndMonotone ==
    /\ pc = "classify" => ENABLED ClassifyCall
    /\ pc = "classify_returned" =>
          /\ cl_out[1] = ClaimedLevel(cl_in[1])
          /\ cl_out[2] = ClaimedLevel(cl_in[2])
          /\ (FLe(cl_in[1], cl_in[2]) => cl_out[2] <= cl_out[1])

\* The boundary 0.85 and the value just below it.
C19_Witness ==
    /\ pc = "classify_returned"
    /\ cl_in = <<Fin(849), Fin(850)>>
    /\ cl_out = <<2, 1>>

\* C20: in every grading job each call on the shared model is made inside
\* the with-scope of its own place while the job holds the lease; a job is
\* never inside two scopes; it holds nothing when it reaches a with
\* statement, so it never waits for a lease it holds itself; it holds
\* nothing when it arrives at the next place or at the end, whether the
\* place before returned or raised; and the jobs never block each other
\* for good.
C20_ScopedSequentialModelUse ==
    /\ \A j \in Jobs :
          /\ StepOf(j) = "call" =>
                scopes[j] = <<Sites[jpc[j].site]>> /\ lease = j
          /\ Len(scopes[j]) <= 1
          /\ (lease = j <=> scopes[j] # <<>>)
          /\ StepOf(j) = "enter" => scopes[j] = <<>>
          /\ jpc[j].ip = 1 /\ ~jpc[j].raising => scopes[j] = <<>>
    /\ (\E j \in Jobs : jpc[j].site # Done) => ENABLED NextJobs

\* An encoder call of job 2 raised inside the embedding scope while job 1,
\* past its transcriptions, waits at the with statement of the embedding
\* block holding nothing.
C20_Witness ==
    /\ pc = "jobs"
    /\ StepOf(2) = "raising" /\ scopes[2] = <<"embedding">> /\ lease = 2
    /\ jpc[2].ip = 4
    /\ StepOf(1) = "enter" /\ jpc[1].site = 3 /\ scopes[1] = <<>>

\* C26: the final guard never fires: in every run that reaches the level
\* classification with text similarity below 0.25, the index after the two
\* caps is <= 0.40 and its level is 4 or 5, so the guard's condition is
\* false and no result takes level 4 / index 0.35 from it.
C26_FinalGuardNeverFires ==
    pc \in {"suggest", "returned"} /\ exc = "none" =>
        /\ ~GuardFires(similarity, ref_clarity, sam_clarity)
        /\ (FLt(similarity.wer, Fin(250)) =>
               /\ FLe(CappedIndex(similarity, ref_clarity, sam_clarity), Fin(400))
               /\ classify_level(CappedIndex(similarity, ref_clarity, sam_clarity)) >= 4)

\* The condition of the final guard is false whenever it is evaluated.
GuardNeverTaken ==
    pc \in {"suggest", "returned"} /\ exc = "none" =>
        ~GuardFires(similarity, ref_clarity, sam_clarity)

\* The task raised: the exception has left analyze_audio_task.
TaskRaised == tpc \in {"on_failure", "raised"}
ArgumentEmpty ==
    \/ targs.practice_record_id = "" \/ targs.sentence_id = ""
    \/ targs.user_audio_path = "" \/ targs.example_audio_path = ""

C30_SuccessImpliesStored ==
    tpc = "returned" /\ tstatus = "SUCCESS" /\ summary.success =>
        stored = "stored"

\* C30 amended: a run that ends with status SUCCESS and success = True has
\* called save_analysis_result_sync on its result, stored or not; and a
\* failure to store never makes the run raise: a run that raised after a
\* failed save raised because building the summary failed.
C30_SuccessAfterSaveAttempt ==
    /\ tpc = "returned" =>
          tstatus = "SUCCESS" /\ summary.success /\ stored \in {"stored", "failed"}
    /\ tpc \in {"handler", "on_failure", "raised"} /\ stored = "failed" =>
          texc.cause = "TypeError"

\* The save failed and the run still ended as SUCCESS with success = True.
C30_Witness ==
    /\ tpc = "returned"
    /\ stored = "failed"
    /\ tstatus = "SUCCESS"
    /\ summary.success


(* ------------------------- claims: queue manager ----------------------- *)

\* The call that made this step was `op` on the row or practice record id.
QueueStep(op, id) == qret'.op = op /\ qret'.id = id

TablesUnchanged == qrecs' = qrecs /\ pstatus' = pstatus

\* C22: add_to_queue on a practice record whose queue row is PENDING or
\* PROCESSING fails with 400 and leaves the row, its retry_count and the
\* practice status as they were; on a practice record that does not exist it
\* fails with 404 and creates nothing.
C22_AddToQueueRejects ==
    [][\A p \in Pids :
          QueueStep("add_to_queue", p) =>
              /\ (pstatus[p] # "absent"
                  /\ qrecs[p].status \in {"pending", "processing"})
                     => (qret'.code = 400 /\ TablesUnchanged)
              /\ pstatus[p] = "absent"
                     => (qret'.code = 404 /\ TablesUnchanged)]_vars

\* A PROCESSING row that has been retried was offered to add_to_queue.
C22_Witness ==
    /\ qret.op = "add_to_queue" /\ qret.code = 400
    /\ qrecs[qret.id].status = "processing"
    /\ qrecs[qret.id].retry_count > 0

\* C23: mark_failed with should_retry returns the row to PENDING
\* (retry_count one more, started_at and worker_id cleared, practice record
\* AI_QUEUED) while retry_count < max_retries, and otherwise makes it FAILED
\* with completed_at set and the practice record COMPLETED; mark_failed
\* never raises retry_count above max_retries; a row that failed on every
\* attempt since it was created is FAILED only with retry_count =
\* max_retries.
C23_RetryThenFail ==
    /\ [][\A q \in Pids :
             (QueueStep("mark_failed", q) /\ qrecs[q].status # "none") =>
                 /\ qret'.arg = "retry" =>
                       IF qrecs[q].retry_count < qrecs[q].max_retries
                       THEN /\ qrecs'[q].status = "pending"
                            /\ qrecs'[q].retry_count = qrecs[q].retry_count + 1
                            /\ ~qrecs'[q].started_at
                            /\ ~qrecs'[q].worker_id
                            /\ pstatus'[q] = "ai_queued"
                       ELSE /\ qrecs'[q].status = "failed"
                            /\ qrecs'[q].retry_count = qrecs[q].retry_count
                            /\ qrecs'[q].completed_at
                            /\ pstatus'[q] = "completed"
                 /\ qrecs'[q].retry_count > qrecs[q].retry_count
                       => qrecs'[q].retry_count <= qrecs'[q].max_retries]_vars
    /\ [](qrecs # Unset =>
             \A q \in Pids :
                 (qtrail[q] = "fresh" /\ qrecs[q].status # "none") =>
                     /\ qrecs[q].retry_count <= qrecs[q].max_retries
                     /\ qrecs[q].status = "failed"
                           => qrecs[q].retry_count = qrecs[q].max_retries)

\* A row that failed on every attempt has just become FAILED.
C23_Witness ==
    /\ qret.op = "mark_failed" /\ qret.arg = "retry" /\ qret.code = 200
    /\ qtrail[qret.id] = "fresh"
    /\ qrecs[qret.id].status = "failed"
    /\ qrecs[qret.id].retry_count = MaxRetriesDefault

\* The practice status that goes with a queue row status.
PracticeStatusFor(st) ==
    CASE st = "pending" -> "ai_queued"
      [] st = "processing" -> "ai_processing"
      [] st = "completed" -> "ai_analyzed"
      [] st \in {"failed", "cancelled"} -> "completed"

\* C27: the status of every queue row and the practice status of its
\* practice record agree, after a re-queue of a FAILED or CANCELLED row too.
C27_QueueAndPracticeAgree ==
    qrecs # Unset =>
        \A p \in Pids :
            qrecs[p].status # "none" => pstatus[p] = PracticeStatusFor(qrecs[p].status)

\* The two statuses agree as long as no row has been re-queued.
AgreeUntilRequeue ==
    [][(qret'.op = "add_to_queue" /\ qret'.code = 200
        /\ qrecs[qret'.id].status \in {"failed", "cancelled"})
       \/ (C27_QueueAndPracticeAgree => C27_QueueAndPracticeAgree')]_vars


(* ------------------------ claims: message service ---------------------- *)

\* SENT < DELIVERED < READ
StatusRank(st) == CASE st = "sent" -> 0 [] st = "delivered" -> 1 [] st = "read" -> 2

\* The messages this step changed to READ.
BecameRead ==
    {m \in 1..Len(chat_messages) :
        chat_messages'[m].status = "read" /\ chat_messages[m].status # "read"}

RespondsOnlyTo(Responder(_)) ==
    \A r \in RequestArgs, u \in PairingUsers, a \in RespondActions :
        (RespondToPairingRequest(r, u, a) /\ RequestExists(r)) =>
            LET req == pairing_requests[r]
            IN  IF u # Responder(req)
                THEN pret'.code = 403 /\ pairing_requests' = pairing_requests
                ELSE IF req.status # "pending"
                THEN pret'.code = 400 /\ pairing_requests' = pairing_requests
                ELSE IF req.expired
                THEN pret'.code = 400 /\ pairing_requests'[r].status = "expired"
                ELSE a \in {"accept", "reject"} => pret'.code \in {200, 500}

TargetOf(req) == req.target_id
RequesterOf(req) == req.requester_id

\* C25: only the receiver (target_id) of a pairing request may accept or
\* reject it; any other caller, the requester included, gets 403 and the
\* status stays; a request that is not PENDING gets 400; an expired PENDING
\* request is set to EXPIRED and gets 400.
C25_OnlyReceiverResponds == [][RespondsOnlyTo(TargetOf)]_vars

\* The same with the requester in the place of the receiver.
OnlyRequesterResponds == [][RespondsOnlyTo(RequesterOf)]_vars

\* C29: at most one active TherapistClient row for a therapist and a client,
\* and every row links a THERAPIST user to a CLIENT user.
C29_OneActiveRelationship ==
    pret # Unset =>
        /\ \A i \in 1..Len(relationships), j \in 1..Len(relationships) :
              (/\ i # j
               /\ relationships[i].therapist_id = relationships[j].therapist_id
               /\ relationships[i].client_id = relationships[j].client_id)
                  => ~(relationships[i].is_active /\ relationships[j].is_active)
        /\ \A i \in 1..Len(relationships) :
              /\ RoleOf(relationships[i].therapist_id) = "therapist"
              /\ RoleOf(relationships[i].client_id) = "client"

\* Two requests between the same two users were scanned; one was accepted
\* and made the relationship, and the accept of the other has just failed.
C29_Witness ==
    /\ Len(pairing_requests) = 2 /\ Len(relationships) = 1
    /\ pret = PairingCall("respond_to_pairing_request", 500)
    /\ \E i \in 1..2, j \in 1..2 :
          /\ pairing_requests[i].status = "accepted"
          /\ pairing_requests[j].status = "pending"
          /\ pairing_requests[i].target_id # "none"
          /\ {pairing_requests[i].requester_id, pairing_requests[i].target_id}
                = {pairing_requests[j].requester_id, pairing_requests[j].target_id}


(* ----------------------- claims: WebSocketManager ---------------------- *)

InSomeRoom(user_id, websocket) ==
    \E r \in DOMAIN active_connections :
        <<user_id, websocket>> \in active_connections[r]

InUserIndex(user_id, websocket) ==
    user_id \in DOMAIN user_connections /\ websocket \in user_connections[user_id]

\* C28: the two indexes agree: (u, ws) is in active_connections of some
\* room exactly when ws is in user_connections[u], so is_user_online(u)
\* exactly when u is among get_room_online_users of some room.
C28_IndexesAgree ==
    wret # Unset =>
        /\ \A u \in WsUsers, ws \in WsIds : InSomeRoom(u, ws) <=> InUserIndex(u, ws)
        /\ \A u \in WsUsers :
              is_user_online(u) <=> \E r \in WsRooms : u \in get_room_online_users(r)

\* Every connection of the user index is in the room index.
UserIndexWithinRoomIndex ==
    wret # Unset =>
        \A u \in WsUsers, ws \in WsIds : InUserIndex(u, ws) => InSomeRoom(u, ws)

\* The indexes agree until a send_personal_message whose send failed.
AgreeUntilPersonalCleanup ==
    [][wret'.op = "send_personal_message" \/ (C28_IndexesAgree => C28_IndexesAgree')]_vars

=============================================================================
